---------------------------- MODULE Spec2Model ----------------------------
(***************************************************************************)
(* A model of the sales-report dashboard: the PDF extraction pipeline      *)
(* (utils/pdf_processor.py), the segmentation pipeline                     *)
(* (utils/clustering.py), the sales analyzer (utils/analysis.py) and the   *)
(* request handlers with their global state (app.py).                      *)
(*                                                                         *)
(* Text is modelled by TLA+ strings; a line of page text is the sequence   *)
(* of its whitespace-delimited tokens (what line.split() returns).         *)
(* Numbers parsed from text are exact decimals [m, d] standing for         *)
(* m / 10^d, kept normalised (no trailing zero decimal), so that equal     *)
(* numbers are equal values; binary floating-point rounding is not         *)
(* modelled.                                                               *)
(***************************************************************************)
EXTENDS Integers, Sequences, FiniteSets, TLC

VARIABLES
    \* ---- PDFProcessor._parse_float_safe (one call) ----
    text,            \* the argument
    clean_text,      \* the local clean_text after the regex substitution
    parsed,          \* float(clean_text): <<v>>, or <<>> when float() raised
    value,           \* the value returned
    parse_pc,        \* "call" | "done"
    \* ---- PDFProcessor.pdf_to_csv (one run) ----
    pdf_pc,          \* "pages" (between pages) | "lines" (in a page) |
                     \* "write" (before to_csv) | "returned" | "raised"
    page_num,        \* pages of the document read so far
    line_num,        \* lines of the current page read so far
    products,        \* _process_page_text's list of the current page
    all_products,    \* pdf_to_csv's list
    rejected,        \* lines read so far that gave no record
    df,              \* the dataset returned
    csv_file,        \* the CSV snapshot: <<>> before the write, <<dataset>> after
    \* ---- CustomerClustering (one instance, one perform_analysis call) ----
    cluster_pc,      \* the step perform_analysis is at, "returned" or "raised"
    cdf,             \* the dataset passed in
    features_df,     \* _prepare_features' table
    trials,          \* _find_optimal_clusters: the outcome of each trial run
    silhouette_scores, \* _find_optimal_clusters' list
    optimal_clusters,  \* the cluster count selected (0: none yet)
    labels,          \* the per-row labels of _perform_clustering
    segments,        \* _analyze_customer_segments' dict, as id :> segment_info
    scaler,          \* self.scaler: <<>> unfitted, <<table>> fitted on table
    cluster_result,  \* what perform_analysis returned
    \* ---- SalesAnalyzer (one call) ----
    analysis_pc,     \* the step analyze_sales is at, "returned" or "raised"
    adf,             \* the dataset passed in
    analysis,        \* analyze_sales' dict "analysis", as key :> value
    favorites,       \* what a direct analyze_favorite_menus call returned
    \* ---- PDFProcessor._extract_product_from_line (one call) ----
    line_parts,      \* line.split() of the argument
    product_data,    \* the value returned: <<record>>, or <<>> for None
    line_pc,         \* "idle" | "call" | "done"
    \* ---- SalesAnalyzer._analyze_top_products (one call) ----
    top_df,          \* the argument df
    top_n,           \* the argument top_n
    top_products,    \* the list returned
    top_pc,          \* "idle" | "call" | "done"
    \* ---- PDFProcessor._process_page_text (one call) ----
    page_text,       \* text.split("\n"), each line as line.split() gives it
    page_products,   \* the list returned
    page_pc,         \* "idle" | "call" | "done"
    \* ---- app.py ----
    data_history,    \* the global list of dataset entries
    current_dataset_index,  \* the global index of the active entry, or -1
    datasets,        \* the rows of the SQLite table datasets, in id order
    sqlite_sequence, \* the largest id the table has given out
    processed,       \* the files of the processed folder, by name
    uploads          \* the locals of the upload requests being served

parse_vars == <<text, clean_text, parsed, value, parse_pc>>

pdf_vars == <<pdf_pc, page_num, line_num, products, all_products, rejected,
              df, csv_file>>

cluster_vars == <<cluster_pc, cdf, features_df, trials, silhouette_scores,
                  optimal_clusters, labels, segments, scaler, cluster_result>>

analysis_vars == <<analysis_pc, adf, analysis, favorites>>

line_vars == <<line_parts, product_data, line_pc>>

top_vars == <<top_df, top_n, top_products, top_pc>>

page_vars == <<page_text, page_products, page_pc>>

db_vars == <<datasets, sqlite_sequence>>

app_vars == <<data_history, current_dataset_index, db_vars, processed, uploads>>

vars == <<parse_vars, pdf_vars, cluster_vars, analysis_vars, line_vars,
          top_vars, page_vars, app_vars>>

\* What a step of one component leaves alone: the other components.
ParseOnly ==
    UNCHANGED <<pdf_vars, cluster_vars, analysis_vars, line_vars, top_vars, page_vars, app_vars>>
PdfOnly ==
    UNCHANGED <<parse_vars, cluster_vars, analysis_vars, line_vars, top_vars, page_vars, app_vars>>
ClusterOnly ==
    UNCHANGED <<parse_vars, pdf_vars, analysis_vars, line_vars, top_vars, page_vars, app_vars>>
AnalysisOnly ==
    UNCHANGED <<parse_vars, pdf_vars, cluster_vars, line_vars, top_vars, page_vars, app_vars>>
TopOnly ==
    UNCHANGED <<parse_vars, pdf_vars, cluster_vars, analysis_vars, line_vars,
                page_vars, app_vars>>
PageOnly ==
    UNCHANGED <<parse_vars, pdf_vars, cluster_vars, analysis_vars, line_vars,
                top_vars, app_vars>>
LineOnly ==
    UNCHANGED <<parse_vars, pdf_vars, cluster_vars, analysis_vars, top_vars, page_vars, app_vars>>
AppOnly ==
    UNCHANGED <<parse_vars, pdf_vars, cluster_vars, analysis_vars, line_vars,
                top_vars, page_vars>>

-----------------------------------------------------------------------------
(* Strings *)

\* The i-th character of s, as a one-character string.
Char(s, i) == SubSeq(s, i, i)

Digits == {"0", "1", "2", "3", "4", "5", "6", "7", "8", "9"}

IsDigit(c) == c \in Digits

DigitVal(c) ==
    CASE c = "0" -> 0 [] c = "1" -> 1 [] c = "2" -> 2 [] c = "3" -> 3
      [] c = "4" -> 4 [] c = "5" -> 5 [] c = "6" -> 6 [] c = "7" -> 7
      [] c = "8" -> 8 [] c = "9" -> 9

\* s with every character outside keep removed (re.sub of a negated class).
RECURSIVE KeepChars(_, _)
KeepChars(s, keep) ==
    IF Len(s) = 0 THEN ""
    ELSE (IF Char(s, 1) \in keep THEN Char(s, 1) ELSE "")
         \o KeepChars(Tail(s), keep)

\* s.replace(c, by) for a one-character c.
RECURSIVE ReplaceChar(_, _, _)
ReplaceChar(s, c, by) ==
    IF Len(s) = 0 THEN ""
    ELSE (IF Char(s, 1) = c THEN by ELSE Char(s, 1))
         \o ReplaceChar(Tail(s), c, by)

\* The number of positions of s holding a character of set cs.
CountChars(s, cs) == Cardinality({i \in 1..Len(s) : Char(s, i) \in cs})

StartsWith(s, p) == Len(s) >= Len(p) /\ SubSeq(s, 1, Len(p)) = p

\* Python's "sub in s".
Contains(s, sub) ==
    \E i \in 1..(Len(s) - Len(sub) + 1) : SubSeq(s, i, i + Len(sub) - 1) = sub

\* " ".join(parts)
RECURSIVE Join(_)
Join(parts) ==
    IF Len(parts) = 0 THEN ""
    ELSE IF Len(parts) = 1 THEN parts[1]
    ELSE parts[1] \o " " \o Join(Tail(parts))

UpperChar(c) ==
    CASE c = "a" -> "A" [] c = "b" -> "B" [] c = "c" -> "C" [] c = "d" -> "D"
      [] c = "e" -> "E" [] c = "f" -> "F" [] c = "g" -> "G" [] c = "h" -> "H"
      [] c = "i" -> "I" [] c = "j" -> "J" [] c = "k" -> "K" [] c = "l" -> "L"
      [] c = "m" -> "M" [] c = "n" -> "N" [] c = "o" -> "O" [] c = "p" -> "P"
      [] c = "q" -> "Q" [] c = "r" -> "R" [] c = "s" -> "S" [] c = "t" -> "T"
      [] c = "u" -> "U" [] c = "v" -> "V" [] c = "w" -> "W" [] c = "x" -> "X"
      [] c = "y" -> "Y" [] c = "z" -> "Z" [] OTHER -> c

\* str.upper(), on ASCII text.
RECURSIVE Upper(_)
Upper(s) ==
    IF Len(s) = 0 THEN "" ELSE UpperChar(Char(s, 1)) \o Upper(Tail(s))

AllDigits(s, from, to) == \A i \in from..to : IsDigit(Char(s, i))

\* ^\d{1,3}(?:<sep>\d{3})*(?:<dec>\d{2})?$ : one to three digits, then groups
\* of a separator and three digits, then optionally a decimal mark and two
\* digits.
Grouped(s, sep, dec) ==
    \E h \in 1..3 : \E t \in {0, 3} :
        /\ Len(s) >= h + t
        /\ (Len(s) - h - t) % 4 = 0
        /\ AllDigits(s, 1, h)
        /\ \A g \in 0..((Len(s) - h - t) \div 4) - 1 :
               /\ Char(s, h + 4 * g + 1) = sep
               /\ AllDigits(s, h + 4 * g + 2, h + 4 * g + 4)
        /\ t = 3 => /\ Char(s, Len(s) - 2) = dec
                    /\ AllDigits(s, Len(s) - 1, Len(s))

-----------------------------------------------------------------------------
(* Decimals *)

RECURSIVE Pow10(_)
Pow10(n) == IF n = 0 THEN 1 ELSE 10 * Pow10(n - 1)

RECURSIVE Norm(_)
Norm(v) ==
    IF v.d > 0 /\ v.m % 10 = 0 THEN Norm([m |-> v.m \div 10, d |-> v.d - 1])
    ELSE v

Dec(n) == [m |-> n, d |-> 0]

\* The integer part of v; for an integer n, v < n iff Floor(v) < n.
Floor(v) == v.m \div Pow10(v.d)

DecLt(v, n) == Floor(v) < n

DecPositive(v) == v.m > 0

\* v * 10^k, exactly.
Shift(v, k) ==
    IF v.d >= k THEN Norm([m |-> v.m, d |-> v.d - k])
    ELSE [m |-> v.m * Pow10(k - v.d), d |-> 0]

\* The number a string of digits denotes.
RECURSIVE DigitsValue(_)
DigitsValue(s) ==
    IF Len(s) = 0 THEN 0
    ELSE 10 * DigitsValue(SubSeq(s, 1, Len(s) - 1)) + DigitVal(Char(s, Len(s)))

\* Python's float() on a string of digits and periods: <<v>>, or <<>> when it
\* raises ValueError (no digit, or more than one period).
Float(s) ==
    IF CountChars(s, {"."}) > 1 \/ CountChars(s, Digits) = 0 THEN <<>>
    ELSE LET dots == {i \in 1..Len(s) : Char(s, i) = "."}
             dot  == IF dots = {} THEN Len(s) ELSE CHOOSE i \in dots : TRUE
         IN  <<Norm([m |-> DigitsValue(KeepChars(s, Digits)),
                     d |-> Len(s) - dot])>>

-----------------------------------------------------------------------------
(* PDFProcessor._parse_float_safe *)

MaxTextLen == 4

Alphabet == {"0", "1", "9", ".", ",", "R"}

RECURSIVE Strings(_)
Strings(n) ==
    IF n = 0 THEN {""}
    ELSE LET shorter == Strings(n - 1)
         IN  shorter \cup {s \o c : s \in {t \in shorter : Len(t) = n - 1},
                                    c \in Alphabet}

\* Amounts as the reports print them, longer than MaxTextLen.
SampleTexts ==
    {"7.000,50", "1.234.567", "Rp20.000", "Rp 9.999", "9.999,99", "10.000",
     "10000", "1,234", "12,50", "Rp1.000.000.000", "Rp999.999.999",
     "1.2.3", "1.00,5", "Rp-5.000", "25.000,-"}

ParseInputs == Strings(MaxTextLen) \cup SampleTexts

\* re.sub(r"[^\d,\.]", "", text)
CleanText(t) == KeepChars(t, Digits \cup {",", "."})

\* re.match(r"^\d{1,3}(\.\d{3})*(,\d{2})?$", clean_text)
IsIndonesianFormat(s) == Grouped(s, ".", ",")

\* clean_text as handed to float(): the two branches of the format test.
FloatText(clean) ==
    IF IsIndonesianFormat(clean)
    THEN ReplaceChar(ReplaceChar(clean, ".", ""), ",", ".")
    ELSE ReplaceChar(clean, ",", "")

ScaleThreshold == 10000

\* A variant of ScaleUp that also scales a value of exactly the threshold.
ScaleUpInclusive(v) == IF DecLt(v, ScaleThreshold + 1) THEN Shift(v, 3) ELSE v

\* "if value < 10000: value *= 1000"
ScaleUp(v) == IF DecLt(v, ScaleThreshold) THEN Shift(v, 3) ELSE v

\* The value _parse_float_safe returns; a ValueError of float() is caught and
\* gives 0.0.
ParseFloatSafe(t) ==
    LET f == Float(FloatText(CleanText(t)))
    IN  IF f = <<>> THEN Dec(0) ELSE ScaleUp(f[1])

ParseInit ==
    /\ text \in ParseInputs
    /\ clean_text = ""
    /\ parsed = <<>>
    /\ value = Dec(0)
    /\ parse_pc = "call"

ParseIdle ==
    /\ text = ""
    /\ clean_text = ""
    /\ parsed = <<>>
    /\ value = Dec(0)
    /\ parse_pc = "idle"

\* One call of _parse_float_safe(text).
ParseFloat ==
    /\ parse_pc = "call"
    /\ clean_text' = CleanText(text)
    /\ parsed' = Float(FloatText(CleanText(text)))
    /\ value' = ParseFloatSafe(text)
    /\ parse_pc' = "done"
    /\ UNCHANGED text
    /\ ParseOnly

-----------------------------------------------------------------------------
(* PDFProcessor: one line of page text *)

HeaderKeywords ==
    {"SKU", "Outlet", "Kategori", "Laporan", "Periode", "Zona", "Pencarian"}

\* "not line or any(keyword in line for keyword in [...])", on the tokens of
\* the stripped line: no keyword holds whitespace, so a keyword is in the line
\* exactly when it is in one of its tokens.
\* A variant of IsSkippedLine that skips blank lines only.
IsSkippedLineBlankOnly(parts) == Len(parts) = 0

IsSkippedLine(parts) ==
    \/ Len(parts) = 0
    \/ \E i \in 1..Len(parts) : \E k \in HeaderKeywords : Contains(parts[i], k)

\* '"Rp" in line'
HasCurrencyMarker(parts) == \E i \in 1..Len(parts) : Contains(parts[i], "Rp")

\* The index of the first token that starts with "Rp"; Len(parts) + 1 if none.
FirstRp(parts) ==
    LET hits == {i \in 1..Len(parts) : StartsWith(parts[i], "Rp")}
    IN  IF hits = {} THEN Len(parts) + 1
        ELSE CHOOSE i \in hits : \A j \in hits : i <= j

\* The tokens before the first token that starts with "Rp".
ProductNameParts(parts) == SubSeq(parts, 1, FirstRp(parts) - 1)

\* re.match(r"^\d{1,3}(?:,\d{3})*(?:\.\d{2})?$", part)
IsQuantityToken(s) == Grouped(s, ",", ".")

\* _safe_find_quantity
SafeFindQuantity(parts) ==
    LET hits == {i \in 1..Len(parts) : IsQuantityToken(parts[i])}
    IN  IF hits = {} THEN Dec(0)
        ELSE ParseFloatSafe(parts[CHOOSE i \in hits : \A j \in hits : i <= j])

\* re.match(r"^[\d.,]+$", part)
IsNumberPiece(s) ==
    Len(s) > 0 /\ \A i \in 1..Len(s) : Char(s, i) \in Digits \cup {".", ","}

\* parts[i] followed by the run of number pieces after it.
RECURSIVE GlueNumber(_, _)
GlueNumber(parts, j) ==
    IF j <= Len(parts) /\ IsNumberPiece(parts[j])
    THEN parts[j] \o GlueNumber(parts, j + 1)
    ELSE ""

\* _extract_sales_amount
ExtractSalesAmount(parts) ==
    LET i == FirstRp(parts)
    IN  IF i > Len(parts) THEN Dec(0)
        ELSE ParseFloatSafe(parts[i] \o GlueNumber(parts, i + 1))

\* category_mapping, in the order of the dict literal.
CategoryMapping ==
    << <<"PAKET AYAM", "Paket Ayam">>,
       <<"PAKET IKAN LELE", "Paket Ikan Lele">>,
       <<"PAKET IKAN NILA", "Paket Ikan Nila">>,
       <<"PAKET BEBEK", "Paket Bebek">>,
       <<"PAKET CUMI", "Paket Seafood">>,
       <<"PAKET UDANG", "Paket Seafood">>,
       <<"AYAM BAKAR", "Ayam Bakar">>,
       <<"AYAM GORENG", "Ayam Goreng">>,
       <<"IKAN LELE", "Ikan Lele">>,
       <<"IKAN NILA", "Ikan Nila">>,
       <<"BEBEK", "Bebek">>,
       <<"NASI", "Nasi">>,
       <<"ES", "Minuman">>,
       <<"TEH", "Minuman">>,
       <<"JUS", "Minuman">>,
       <<"SUSU", "Minuman">>,
       <<"MIE", "Mie">>,
       <<"KWETIAU", "Mie">>,
       <<"CUMI", "Seafood">>,
       <<"UDANG", "Seafood">> >>

\* A variant of DetermineCategorySmart in which the last matching keyword of
\* the table wins.
DetermineCategoryLast(product_name) ==
    LET upper == Upper(product_name)
        hits  == {i \in 1..Len(CategoryMapping) :
                      Contains(upper, CategoryMapping[i][1])}
    IN  IF hits = {} THEN "Lainnya"
        ELSE CategoryMapping[CHOOSE i \in hits : \A j \in hits : j <= i][2]

\* _determine_category_smart
DetermineCategorySmart(product_name) ==
    LET upper == Upper(product_name)
        hits  == {i \in 1..Len(CategoryMapping) :
                      Contains(upper, CategoryMapping[i][1])}
    IN  IF hits = {} THEN "Lainnya"
        ELSE CategoryMapping[CHOOSE i \in hits : \A j \in hits : i <= j][2]

\* datetime.now().date(): the day of the run.
Today == "today"

\* _extract_product_from_line: <<record>>, or <<>> for None.  prods is the
\* list the caller passes for the duplicate test.
ExtractProductFromLine(parts, prods) ==
    LET product_name == Join(ProductNameParts(parts))
        quantity     == SafeFindQuantity(parts)
        sales_amount == ExtractSalesAmount(parts)
    IN  IF ~HasCurrencyMarker(parts) THEN <<>>
        ELSE IF ProductNameParts(parts) = <<>> THEN <<>>
        ELSE IF \E i \in 1..Len(prods) : prods[i].produk = product_name THEN <<>>
        ELSE IF product_name # "" /\ DecPositive(sales_amount)
        THEN << [produk         |-> product_name,
                 jumlah_terjual |-> quantity,
                 penjualan_rp   |-> sales_amount,
                 kategori       |-> DetermineCategorySmart(product_name),
                 tanggal        |-> Today] >>
        ELSE <<>>

\* A direct call _extract_product_from_line(line, []): lines made of up to
\* MaxNameWords words followed by one of the endings.
MaxNameWords == 3

NameWords == {"Paket", "Ayam", "Goreng", "Nasi", "Es", "Kopi", "5"}

LineEndings ==
    { <<>>,
      <<"Rp0">>,
      <<"Rp20.000">>,
      <<"Rp20.000", "1,234">>,
      <<"Rp1.", "500.000", "12">> }

LineInputs ==
    LET F[n \in 0..MaxNameWords] ==
            IF n = 0 THEN {<<>>}
            ELSE F[n - 1] \cup {<<w>> \o q : w \in NameWords,
                                  q \in {t \in F[n - 1] : Len(t) = n - 1}}
    IN  {name \o ending : name \in F[MaxNameWords], ending \in LineEndings}

LineIdle ==
    /\ line_parts = <<>>
    /\ product_data = <<>>
    /\ line_pc = "idle"

LineInit ==
    /\ line_parts \in LineInputs
    /\ product_data = <<>>
    /\ line_pc = "call"

ExtractLine ==
    /\ line_pc = "call"
    /\ product_data' = ExtractProductFromLine(line_parts, <<>>)
    /\ line_pc' = "done"
    /\ UNCHANGED line_parts
    /\ LineOnly

\* What one iteration of _process_page_text's loop appends to products.
ProcessLineResult(parts, prods) ==
    IF IsSkippedLine(parts) THEN <<>> ELSE ExtractProductFromLine(parts, prods)

-----------------------------------------------------------------------------
(* PDFProcessor.pdf_to_csv *)

MaxPages == 2
MaxLines == 2

\* The lines a page may hold, each as line.split() gives it.
PageLines ==
    { <<"Nasi", "Goreng", "Rp20.000">>,
      <<"Nasi", "Goreng", "Rp25.000", "porsi", "12">>,
      <<"Es", "Teh", "Rp999.999.999">>,
      <<"5", "Paket", "Ayam", "Rp1.000.000.000">>,
      <<"Laporan", "Penjualan", "Rp5.000">>,
      <<"Total", "12">>,
      <<"Rp5.000">>,
      <<"Kopi", "Rp0">>,
      <<>> }

\* _process_page_text(text): the list products after the loop over lines.
ProcessPageText(lines) ==
    LET F[k \in 0..Len(lines)] ==
            IF k = 0 THEN <<>>
            ELSE F[k - 1] \o ProcessLineResult(lines[k], F[k - 1])
    IN  F[Len(lines)]

\* A direct call _process_page_text(text), for texts of up to MaxTextLines
\* lines.
MaxTextLines == 2

\* The lines a directly passed text is made of: the page lines and one more
\* valid product line.
TextLines == PageLines \cup { <<"Kopi", "Rp15.000">> }

PageTexts ==
    LET F[n \in 0..MaxTextLines] ==
            IF n = 0 THEN {<<>>}
            ELSE F[n - 1] \cup {Append(q, x) : x \in TextLines,
                                  q \in {t \in F[n - 1] : Len(t) = n - 1}}
    IN  F[MaxTextLines]

PageIdle ==
    /\ page_pc = "idle"
    /\ page_text = <<>>
    /\ page_products = <<>>

PageInit ==
    /\ page_pc = "call"
    /\ page_text \in PageTexts
    /\ page_products = <<>>

ProcessPage ==
    /\ page_pc = "call"
    /\ page_products' = ProcessPageText(page_text)
    /\ page_pc' = "done"
    /\ UNCHANGED page_text
    /\ PageOnly

CanonicalColumns ==
    <<"produk", "jumlah_terjual", "penjualan_rp", "kategori", "tanggal">>

OutlierCeiling == 1000000000

\* A variant of FinalValidation that keeps a record of exactly the ceiling.
FinalValidationInclusive(frame) ==
    [frame EXCEPT !.rows =
        SelectSeq(frame.rows,
                  LAMBDA r : DecLt(r.penjualan_rp, OutlierCeiling + 1))]

\* _final_validation: "df = df[df["penjualan_rp"] < 1_000_000_000]".  The
\* totals it computes before are only printed.
FinalValidation(frame) ==
    [frame EXCEPT !.rows =
        SelectSeq(frame.rows, LAMBDA r : DecLt(r.penjualan_rp, OutlierCeiling))]

\* pd.DataFrame(all_products) of a non-empty list of records: the columns are
\* the keys of the records.
DataFrame(records) == [columns |-> CanonicalColumns, rows |-> records]

\* A variant of EmptyFrame: pd.DataFrame() of an empty list, without columns.
EmptyFrameWithoutColumns == [columns |-> <<>>, rows |-> <<>>]

\* pd.DataFrame(columns=[...])
EmptyFrame == [columns |-> CanonicalColumns, rows |-> <<>>]

\* The dataset pdf_to_csv builds from all_products.
BuildFrame(records) ==
    IF records # <<>> THEN FinalValidation(DataFrame(records)) ELSE EmptyFrame

NoFrame == [columns |-> <<>>, rows |-> <<>>]

PdfInit ==
    /\ pdf_pc = "pages"
    /\ page_num = 0
    /\ line_num = 0
    /\ products = <<>>
    /\ all_products = <<>>
    /\ rejected = 0
    /\ df = NoFrame
    /\ csv_file = <<>>

\* A page whose extract_text() is empty: "continue".
SkipPage ==
    /\ pdf_pc = "pages"
    /\ page_num < MaxPages
    /\ page_num' = page_num + 1
    /\ UNCHANGED <<pdf_pc, line_num, products, all_products, rejected, df,
                   csv_file>>
    /\ PdfOnly

\* _process_page_text is entered with a page's text.
BeginPage ==
    /\ pdf_pc = "pages"
    /\ page_num < MaxPages
    /\ pdf_pc' = "lines"
    /\ products' = <<>>
    /\ line_num' = 0
    /\ UNCHANGED <<page_num, all_products, rejected, df, csv_file>>
    /\ PdfOnly

\* One iteration of the loop over the page's lines.
ProcessLine ==
    /\ pdf_pc = "lines"
    /\ line_num < MaxLines
    /\ \E parts \in PageLines :
         LET got == ProcessLineResult(parts, products)
         IN  /\ products' = products \o got
             /\ rejected' = IF got = <<>> THEN rejected + 1 ELSE rejected
    /\ line_num' = line_num + 1
    /\ UNCHANGED <<pdf_pc, page_num, all_products, df, csv_file>>
    /\ PdfOnly

\* _process_page_text returns; "all_products.extend(page_products)".
EndPage ==
    /\ pdf_pc = "lines"
    /\ all_products' = all_products \o products
    /\ products' = <<>>
    /\ line_num' = 0
    /\ page_num' = page_num + 1
    /\ pdf_pc' = "pages"
    /\ UNCHANGED <<rejected, df, csv_file>>
    /\ PdfOnly

\* After the last page: build the dataset.
FinishPdf ==
    /\ pdf_pc = "pages"
    /\ df' = BuildFrame(all_products)
    /\ pdf_pc' = "write"
    /\ UNCHANGED <<page_num, line_num, products, all_products, rejected,
                   csv_file>>
    /\ PdfOnly

\* A variant of Snapshot: nothing is written.
SnapshotSkipped(frame) == <<>>

\* What the file at csv_path holds after df.to_csv(csv_path, index=False).
Snapshot(frame) == <<frame>>

\* "df.to_csv(csv_path, index=False)" and "return df"; when to_csv raises
\* (the path cannot be written) the exception leaves pdf_to_csv.
WriteCsv ==
    /\ pdf_pc = "write"
    /\ \/ csv_file' = Snapshot(df) /\ pdf_pc' = "returned"
       \/ UNCHANGED csv_file /\ pdf_pc' = "raised"
    /\ UNCHANGED <<page_num, line_num, products, all_products, rejected, df>>
    /\ PdfOnly

PdfNext ==
    SkipPage \/ BeginPage \/ ProcessLine \/ EndPage \/ FinishPdf \/ WriteCsv

-----------------------------------------------------------------------------
(* Datasets of the analysis core: a pandas DataFrame as its set of columns  *)
(* and its rows; a row's field is read only when the column is present.     *)

HasCol(d, c) == c \in d.columns

\* "frame[c] = ...": frame with the column c added.
WithColumn(d, c) == [d EXCEPT !.columns = @ \cup {c}]

\* A variant of CallerFrame for a working frame that is the caller's object.
CallerFrameAliased(d, working) == working

\* The caller's dataset d after a function has worked on "d.copy()" and left
\* the copy as working: the copy is another object, d is as it was.
CallerFrame(d, working) == d

RowIds(d) == 1..Len(d.rows)

\* Series.var() > 0 of a column without missing values: some two rows
\* differ (the variance of fewer than two rows is NaN, and NaN > 0 is False).
NonConstant(d, c) == \E i, j \in RowIds(d) : d.rows[i][c] # d.rows[j][c]

RECURSIVE SumOver(_, _, _)
SumOver(rows, c, ids) ==
    IF ids = {} THEN 0
    ELSE LET i == CHOOSE x \in ids : TRUE
         IN  rows[i][c] + SumOver(rows, c, ids \ {i})

Min(a, b) == IF a <= b THEN a ELSE b

\* The largest element of a non-empty set of integers.
MaxOf(S) == CHOOSE x \in S : \A y \in S : y <= x

\* A variant of Nlargest in which, of rows of equal c, the later one comes
\* first.
RECURSIVE NlargestLastFirst(_, _, _, _)
NlargestLastFirst(rows, ids, n, c) ==
    IF n = 0 \/ ids = {} THEN <<>>
    ELSE LET best == CHOOSE i \in ids :
                        \A j \in ids : \/ rows[j][c] < rows[i][c]
                                        \/ (rows[j][c] = rows[i][c] /\ j <= i)
         IN  <<best>> \o NlargestLastFirst(rows, ids \ {best}, n - 1, c)

\* DataFrame.nlargest(n, c) on row ids: the n rows of largest c, largest
\* first, rows of equal c in their original order (keep="first").
RECURSIVE Nlargest(_, _, _, _)
Nlargest(rows, ids, n, c) ==
    IF n = 0 \/ ids = {} THEN <<>>
    ELSE LET best == CHOOSE i \in ids :
                        \A j \in ids : \/ rows[j][c] < rows[i][c]
                                        \/ (rows[j][c] = rows[i][c] /\ i <= j)
         IN  <<best>> \o Nlargest(rows, ids \ {best}, n - 1, c)

-----------------------------------------------------------------------------
(* CustomerClustering._prepare_features *)

\* The category values of the model's data, in sorted order (get_dummies
\* makes its columns in sorted order).
Categories == <<"Minuman", "Nasi">>

\* sales / quantity.replace(0, 1) differs between two rows.
SalesPerUnitVaries(d) ==
    LET q(i) == IF d.rows[i].jumlah_terjual = 0 THEN 1
                ELSE d.rows[i].jumlah_terjual
    IN  \E i, j \in RowIds(d) :
            d.rows[i].penjualan_rp * q(j) # d.rows[j].penjualan_rp * q(i)

\* z(sales) * z(quantity) has a variance above 0: both standard deviations
\* are non-zero (else the column is NaN) and the products of the deviations
\* from the means differ between two rows.
ProfitabilityVaries(d) ==
    LET n == Len(d.rows)
        S == SumOver(d.rows, "penjualan_rp", RowIds(d))
        Q == SumOver(d.rows, "jumlah_terjual", RowIds(d))
        p(i) == (n * d.rows[i].penjualan_rp - S)
                    * (n * d.rows[i].jumlah_terjual - Q)
    IN  /\ NonConstant(d, "penjualan_rp")
        /\ NonConstant(d, "jumlah_terjual")
        /\ \E i, j \in RowIds(d) : p(i) # p(j)

\* The dummy columns of the category values present, in sorted order.
CategoryDummies(d) ==
    LET present(v) == \E i \in RowIds(d) : d.rows[i].kategori = v
        F[k \in 0..Len(Categories)] ==
            IF k = 0 THEN <<>>
            ELSE F[k - 1] \o (IF present(Categories[k])
                              THEN <<"cat_" \o Categories[k]>> ELSE <<>>)
    IN  F[Len(Categories)]

\* The feature table: the columns left after the zero-variance columns are
\* dropped, in the order they were made, and the number of rows.  The
\* feature values themselves are read by scikit-learn only.
PrepareFeatures(d) ==
    LET sales == HasCol(d, "penjualan_rp")
        qty   == HasCol(d, "jumlah_terjual")
        cat   == HasCol(d, "kategori")
    IN  [columns |->
            (IF sales /\ NonConstant(d, "penjualan_rp")
             THEN <<"total_sales">> ELSE <<>>)
            \o (IF sales /\ qty /\ SalesPerUnitVaries(d)
                THEN <<"sales_per_unit">> ELSE <<>>)
            \o (IF qty /\ NonConstant(d, "jumlah_terjual")
                THEN <<"quantity_sold">> ELSE <<>>)
            \o (IF cat /\ NonConstant(d, "kategori")
                THEN CategoryDummies(d) ELSE <<>>)
            \o (IF sales /\ qty /\ ProfitabilityVaries(d)
                THEN <<"profitability_score">> ELSE <<>>),
         n |-> Len(d.rows)]

\* A variant of IsEmpty that looks at the rows only.
IsEmptyRowsOnly(f) == f.n = 0

\* DataFrame.empty: an axis of length 0.
IsEmpty(f) == Len(f.columns) = 0 \/ f.n = 0

NoFeatures == [columns |-> <<>>, n |-> 0]

-----------------------------------------------------------------------------
(* CustomerClustering._find_optimal_clusters *)

\* max_clusters=6
MaxClustersDefault == 6

\* Silhouette scores a trial may get, in tenths.
SilhouetteValues == {-5, 5}

\* What one trial run may do: KMeans or silhouette_score raises, the labels
\* are all the same, or there is a score.
TrialOutcomes ==
    {[kind |-> "raised", score |-> 0], [kind |-> "single", score |-> 0]}
        \cup {[kind |-> "scored", score |-> v] : v \in SilhouetteValues}

\* The candidate counts tried for a table of n rows: range(2, max_clusters + 1).
Candidates(n) == 2..Min(MaxClustersDefault, n - 1)

\* What a trial appends to silhouette_scores.
TrialScore(outcome) == IF outcome.kind = "scored" THEN outcome.score ELSE 0

\* A variant of ArgMax that gives the last index holding the maximum.
ArgMaxLast(scores) ==
    (CHOOSE i \in 1..Len(scores) :
        /\ \A j \in 1..Len(scores) : scores[j] <= scores[i]
        /\ \A j \in (i + 1)..Len(scores) : scores[j] < scores[i]) - 1

\* np.argmax: the first index (0-based) holding the maximum.
ArgMax(scores) ==
    (CHOOSE i \in 1..Len(scores) :
        /\ \A j \in 1..Len(scores) : scores[j] <= scores[i]
        /\ \A j \in 1..(i - 1) : scores[j] < scores[i]) - 1

\* A variant of OptimalK that takes the index of the best score for the count.
OptimalKNoOffset(n, scores) ==
    IF n <= 3 THEN 2
    ELSE Min(IF scores # <<>> THEN ArgMax(scores) + 1 ELSE 2,
             Min(MaxClustersDefault, n - 1))

\* The value _find_optimal_clusters returns for n rows after its trials.
OptimalK(n, scores) ==
    IF n <= 3 THEN 2
    ELSE Min(IF scores # <<>> THEN ArgMax(scores) + 2 ELSE 2,
             Min(MaxClustersDefault, n - 1))

-----------------------------------------------------------------------------
(* CustomerClustering._analyze_customer_segments *)

Thresholds == <<50000000, 10000000, 1000000>>

\* A variant of NameSegment whose thresholds are inclusive.
NameSegmentInclusive(avg) ==
    IF avg.count = 0 THEN "Produk Standard"
    ELSE IF avg.sum >= Thresholds[1] * avg.count THEN "Produk Premium"
    ELSE IF avg.sum >= Thresholds[2] * avg.count THEN "Produk High-Value"
    ELSE IF avg.sum >= Thresholds[3] * avg.count THEN "Produk Medium-Value"
    ELSE "Produk Standard"

\* _name_segment; avg is the mean [sum, count], NaN when count = 0, and a
\* comparison with NaN is False.
NameSegment(avg) ==
    IF avg.count = 0 THEN "Produk Standard"
    ELSE IF avg.sum > Thresholds[1] * avg.count THEN "Produk Premium"
    ELSE IF avg.sum > Thresholds[2] * avg.count THEN "Produk High-Value"
    ELSE IF avg.sum > Thresholds[3] * avg.count THEN "Produk Medium-Value"
    ELSE "Produk Standard"

\* _generate_recommendations
GenerateRecommendations(segment_name) ==
    CASE segment_name = "Produk Premium" ->
            <<"Fokus pada kualitas dan experience pelanggan",
              "Tawarkan paket premium dengan nilai tambah",
              "Optimalkan inventory untuk produk high-margin">>
      [] segment_name = "Produk High-Value" ->
            <<"Tingkatkan promosi dan visibility",
              "Bundle dengan produk complementary",
              "Monitor stock dan demand pattern">>
      [] segment_name = "Produk Medium-Value" ->
            <<"Tingkatkan volume dengan promosi",
              "Optimalkan harga untuk competitive advantage",
              "Fokus pada customer retention">>
      [] OTHER ->
            <<"Evaluasi profitability secara berkala",
              "Pertimbangkan bundle dengan produk high-value",
              "Monitor performance metrics">>

\* The ids the loop "for cluster_id in range(max(labels) + 1)" visits.
SegmentIds(lbls) == 0..MaxOf({lbls[i] : i \in 1..Len(lbls)})

\* segment_info of one cluster id.
SegmentInfo(d, lbls, cluster_id) ==
    LET members == {i \in RowIds(d) : lbls[i] = cluster_id}
        sales   == HasCol(d, "penjualan_rp")
        total   == IF sales THEN SumOver(d.rows, "penjualan_rp", members) ELSE 0
        avg     == IF sales THEN [sum |-> total, count |-> Cardinality(members)]
                   ELSE [sum |-> 0, count |-> 1]
        name    == NameSegment(avg)
    IN  [segment_size |-> Cardinality(members),
         total_sales |-> total,
         avg_sales_per_product |-> avg,
         total_quantity |->
            IF HasCol(d, "jumlah_terjual")
            THEN SumOver(d.rows, "jumlah_terjual", members) ELSE 0,
         \* value_counts().head(3); the model's data holds two categories,
         \* so head(3) keeps them all.  <<>> when the key is not set.
         top_categories |->
            IF HasCol(d, "kategori")
            THEN <<[v \in {d.rows[i].kategori : i \in members} |->
                      Cardinality({i \in members : d.rows[i].kategori = v})]>>
            ELSE <<>>,
         \* nlargest(3, "penjualan_rp")[["produk", "penjualan_rp"]]
         top_products |->
            IF HasCol(d, "produk") /\ sales
            THEN LET top == Nlargest(d.rows, members, 3, "penjualan_rp")
                 IN  <<[k \in 1..Len(top) |->
                          [produk |-> d.rows[top[k]].produk,
                           penjualan_rp |-> d.rows[top[k]].penjualan_rp]]>>
            ELSE <<>>,
         segment_name |-> name,
         recommendations |-> GenerateRecommendations(name)]

\* The dict _analyze_customer_segments returns.
AnalyzeCustomerSegments(d, lbls) ==
    [cluster_id \in SegmentIds(lbls) |-> SegmentInfo(d, lbls, cluster_id)]

-----------------------------------------------------------------------------
(* CustomerClustering.perform_analysis *)

MaxRows == 4

ClusterRowValues ==
    { [produk |-> "Nasi Goreng", jumlah_terjual |-> 0, penjualan_rp |-> 20000,
       kategori |-> "Nasi", persentase_terjual |-> 0],
      [produk |-> "Es Teh", jumlah_terjual |-> 2, penjualan_rp |-> 50000,
       kategori |-> "Minuman", persentase_terjual |-> 0] }

ClusterColumnSets ==
    { {"produk", "jumlah_terjual", "penjualan_rp", "kategori"},
      {"produk", "jumlah_terjual", "penjualan_rp"},
      {"produk", "penjualan_rp"},
      {"kategori"},
      {"produk"} }

\* All sequences over S of length at most n.
RECURSIVE SeqsUpTo(_, _)
SeqsUpTo(S, n) ==
    IF n = 0 THEN {<<>>}
    ELSE LET shorter == SeqsUpTo(S, n - 1)
         IN  shorter \cup {Append(q, x) : q \in {t \in shorter : Len(t) = n - 1},
                                          x \in S}

ClusterDatasets ==
    {[columns |-> c, rows |-> r] :
        c \in ClusterColumnSets, r \in SeqsUpTo(ClusterRowValues, MaxRows)}

NoDataset == [columns |-> {}, rows |-> <<>>]
NoResult == [success |-> FALSE, error |-> "(no result)"]
NoSegments == <<>>

NotEnoughData ==
    [success |-> FALSE,
     error |-> "Tidak cukup data untuk clustering (minimal 3 data points)"]

\* "except Exception as e: return {'success': False, 'error': str(e)}"
ClusterExcept(e) ==
    [pc |-> "returned", result |-> [success |-> FALSE, error |-> e]]

\* A variant of FitTransform that fits an unfitted scaler only.
FitOnce(sc, table) == IF sc = <<>> THEN <<table>> ELSE sc

\* self.scaler after self.scaler.fit_transform(features_df): fit discards
\* the statistics it had and takes those of the table; the table is then
\* transformed with them.
FitTransform(sc, table) == <<table>>

ClusterInit ==
    /\ cluster_pc = "idle"
    /\ cdf = NoDataset
    /\ features_df = NoFeatures
    /\ trials = <<>>
    /\ silhouette_scores = <<>>
    /\ optimal_clusters = 0
    /\ labels = <<>>
    /\ segments = NoSegments
    /\ scaler = <<>>
    /\ cluster_result = NoResult

\* perform_analysis(df) is called: _prepare_features, then the test for
\* enough data.
BeginAnalysis ==
    /\ cluster_pc = "idle"
    /\ analysis_pc = "idle"
    /\ \E d \in ClusterDatasets :
         LET f == PrepareFeatures(d)
         IN  /\ cdf' = d
             /\ features_df' = f
             /\ IF IsEmpty(f) \/ f.n < 3
                THEN cluster_pc' = "returned" /\ cluster_result' = NotEnoughData
                ELSE cluster_pc' = "select" /\ UNCHANGED cluster_result
    /\ UNCHANGED <<trials, silhouette_scores, optimal_clusters, labels,
                   segments, scaler>>
    /\ ClusterOnly

\* _find_optimal_clusters(features_df): for more than 3 rows the scaler is
\* fitted on the table (fit_transform may raise, outside the trials' try),
\* then one trial per candidate count.
FindOptimalClusters ==
    /\ cluster_pc = "select"
    /\ IF features_df.n <= 3
       THEN /\ optimal_clusters' = OptimalK(features_df.n, <<>>)
            /\ cluster_pc' = "cluster"
            /\ UNCHANGED <<trials, silhouette_scores, scaler, cluster_result>>
       ELSE \/ /\ cluster_pc' = ClusterExcept("fit_transform").pc
               /\ cluster_result' = ClusterExcept("fit_transform").result
               /\ UNCHANGED <<trials, silhouette_scores, scaler,
                              optimal_clusters>>
            \/ \E outcomes \in [Candidates(features_df.n) -> TrialOutcomes] :
                 LET ks == Candidates(features_df.n)
                     scores == [i \in 1..Cardinality(ks) |->
                                    TrialScore(outcomes[i + 1])]
                 IN  /\ scaler' = FitTransform(scaler, features_df)
                     /\ trials' = [i \in 1..Cardinality(ks) |-> outcomes[i + 1]]
                     /\ silhouette_scores' = scores
                     /\ optimal_clusters' = OptimalK(features_df.n, scores)
                     /\ cluster_pc' = "cluster"
                     /\ UNCHANGED cluster_result
    /\ UNCHANGED <<cdf, features_df, labels, segments>>
    /\ ClusterOnly

\* A variant of KMeansLabels that numbers the clusters from 1.
KMeansLabelsOneBased(n, k) == [1..n -> 1..k]

\* The label lists KMeans(n_clusters=k).fit_predict may give for n rows:
\* scikit-learn numbers the clusters 0..k-1, and a cluster may stay empty.
KMeansLabels(n, k) == [1..n -> 0..(k - 1)]

\* _perform_clustering(features_df, optimal_clusters): fit_transform and
\* KMeans either raise or give the labels; the locals of
\* _find_optimal_clusters are gone.
PerformClustering ==
    /\ cluster_pc = "cluster"
    /\ trials' = <<>>
    /\ silhouette_scores' = <<>>
    /\ \/ /\ cluster_pc' = ClusterExcept("fit_predict").pc
          /\ cluster_result' = ClusterExcept("fit_predict").result
          /\ UNCHANGED <<labels, scaler>>
       \/ /\ scaler' = FitTransform(scaler, features_df)
          /\ labels' \in KMeansLabels(features_df.n, optimal_clusters)
          /\ cluster_pc' = "segments"
          /\ UNCHANGED cluster_result
    /\ UNCHANGED <<cdf, features_df, optimal_clusters, segments>>
    /\ ClusterOnly

\* _analyze_customer_segments(df, labels); the labels go into the column
\* "cluster" of a copy.
AnalyzeSegments ==
    /\ cluster_pc = "segments"
    /\ segments' = AnalyzeCustomerSegments(cdf, labels)
    /\ cdf' = CallerFrame(cdf, WithColumn(cdf, "cluster"))
    /\ cluster_pc' = "visualize"
    /\ UNCHANGED <<features_df, trials, silhouette_scores,
                   optimal_clusters, labels, scaler, cluster_result>>
    /\ ClusterOnly

\* _prepare_visualizations: the charts made before the first failure, which
\* is caught; the sales chart raises KeyError without a sales column.
PrepareVisualizations(d) ==
    IF HasCol(d, "penjualan_rp")
    THEN {"cluster_distribution", "sales_by_cluster"}
    ELSE {"cluster_distribution"}

\* The charts, then "return {'success': True, ...}".
ReturnResult ==
    /\ cluster_pc = "visualize"
    /\ cluster_result' =
          [success |-> TRUE,
           optimal_clusters |-> optimal_clusters,
           clustering_results |-> [labels |-> labels],
           customer_segments |-> segments,
           visualizations |-> PrepareVisualizations(cdf),
           features_used |-> features_df.columns]
    /\ cluster_pc' = "returned"
    /\ UNCHANGED <<cdf, features_df, trials, silhouette_scores,
                   optimal_clusters, labels, segments, scaler>>
    /\ ClusterOnly

-----------------------------------------------------------------------------
(* SalesAnalyzer: the statistics *)

\* A missing value of a numeric column.
NaN == -1

AllColumns ==
    {"produk", "jumlah_terjual", "penjualan_rp", "kategori",
     "persentase_terjual"}

\* Series.notna().any()
AnyNotNa(d, c) == \E i \in RowIds(d) : d.rows[i][c] # NaN

\* Series.sum() over the rows ids: missing values are skipped.
SumSkipNa(d, c, ids) == SumOver(d.rows, c, {i \in ids : d.rows[i][c] # NaN})

\* top_n=10
TopN == 10

\* A mean as [sum, count]; NaN is count = 0.
Mean(total, n) == [sum |-> total, count |-> n]

\* Series.median() of the sales column.
Median(d) ==
    LET n == Len(d.rows)
        sorted == Nlargest(d.rows, RowIds(d), n, "penjualan_rp")
        at(k) == d.rows[sorted[k]].penjualan_rp
    IN  IF n = 0 THEN Mean(0, 0)
        ELSE IF n % 2 = 1 THEN Mean(at((n + 1) \div 2), 1)
        ELSE Mean(at(n \div 2) + at(n \div 2 + 1), 2)

\* _get_accurate_stats raises KeyError without a sales column.
StatsRaises(d) == ~HasCol(d, "penjualan_rp")

\* _get_accurate_stats
GetAccurateStats(d) ==
    LET total_sales == SumOver(d.rows, "penjualan_rp", RowIds(d))
        total_quantity == IF HasCol(d, "jumlah_terjual")
                          THEN SumSkipNa(d, "jumlah_terjual", RowIds(d)) ELSE 0
        sales == {d.rows[i].penjualan_rp : i \in RowIds(d)}
    IN  [total_products |-> Len(d.rows),
         total_sales |-> total_sales,
         total_quantity |-> total_quantity,
         avg_sales_per_product |-> Mean(total_sales, Len(d.rows)),
         avg_price_per_unit |->
            IF total_quantity > 0 THEN Mean(total_sales, total_quantity)
            ELSE Mean(0, 1),
         max_sales |-> IF sales = {} THEN NaN ELSE MaxOf(sales),
         min_sales |-> IF sales = {} THEN NaN
                       ELSE CHOOSE x \in sales : \A y \in sales : x <= y,
         median_sales |-> Median(d)]

\* _analyze_categories raises KeyError when the category column is there
\* and a column its aggregation names is not.
CategoriesRaises(d) ==
    /\ HasCol(d, "kategori")
    /\ ~({"penjualan_rp", "jumlah_terjual"} \subseteq d.columns)

\* _analyze_categories: <<>> is the empty dict.
AnalyzeCategories(d) ==
    IF ~HasCol(d, "kategori") THEN <<>>
    ELSE [v \in {d.rows[i].kategori : i \in RowIds(d)} |->
            LET members == {i \in RowIds(d) : d.rows[i].kategori = v}
                total == SumOver(d.rows, "penjualan_rp", members)
            IN  [total_sales |-> total,
                 avg_sales |-> Mean(total, Cardinality(members)),
                 product_count |-> Cardinality(members),
                 total_quantity |-> SumSkipNa(d, "jumlah_terjual", members)]]

\* _analyze_top_products raises KeyError when the sales column is there and
\* a column it selects is not.
TopProductsRaises(d) ==
    /\ HasCol(d, "penjualan_rp")
    /\ ~({"produk", "kategori"} \subseteq d.columns)

\* _analyze_top_products(df, top_n)
TopProductsOf(d, n) ==
    IF ~HasCol(d, "penjualan_rp") THEN <<>>
    ELSE LET top == Nlargest(d.rows, RowIds(d), n, "penjualan_rp")
         IN  [k \in 1..Len(top) |->
                IF HasCol(d, "jumlah_terjual")
                THEN [produk |-> d.rows[top[k]].produk,
                      penjualan_rp |-> d.rows[top[k]].penjualan_rp,
                      jumlah_terjual |-> d.rows[top[k]].jumlah_terjual,
                      kategori |-> d.rows[top[k]].kategori]
                ELSE [produk |-> d.rows[top[k]].produk,
                      penjualan_rp |-> d.rows[top[k]].penjualan_rp,
                      kategori |-> d.rows[top[k]].kategori]]

\* _analyze_top_products(df), as analyze_sales calls it.
AnalyzeTopProducts(d) == TopProductsOf(d, TopN)

\* A direct call _analyze_top_products(df, top_n): datasets of up to
\* MaxTopRows products, two of them of equal sales, and the dataset of
\* sales 100, 200, 300, 400, 500; top_n up to MaxTopN, or the default.
MaxTopRows == 3
MaxTopN == 2

TopRow(name, sales) ==
    [produk |-> name, jumlah_terjual |-> 1, penjualan_rp |-> sales,
     kategori |-> "Nasi", persentase_terjual |-> 0]

TopRowValues ==
    {TopRow("A", 200), TopRow("B", 200), TopRow("C", 100), TopRow("D", 300)}

FiveProducts ==
    <<TopRow("P1", 100), TopRow("P2", 200), TopRow("P3", 300),
      TopRow("P4", 400), TopRow("P5", 500)>>

TopDatasets ==
    LET F[n \in 0..MaxTopRows] ==
            IF n = 0 THEN {<<>>}
            ELSE F[n - 1] \cup {Append(q, x) : x \in TopRowValues,
                                  q \in {t \in F[n - 1] : Len(t) = n - 1}}
    IN  {[columns |-> {"produk", "jumlah_terjual", "penjualan_rp", "kategori"},
          rows |-> r] : r \in F[MaxTopRows] \cup {FiveProducts}}

TopIdle ==
    /\ top_pc = "idle"
    /\ top_df = [columns |-> {}, rows |-> <<>>]
    /\ top_n = TopN
    /\ top_products = <<>>

TopInit ==
    /\ top_pc = "call"
    /\ top_df \in TopDatasets
    /\ top_n \in (1..MaxTopN) \cup {TopN}
    /\ top_products = <<>>

TopProductsCall ==
    /\ top_pc = "call"
    /\ top_products' = TopProductsOf(top_df, top_n)
    /\ top_pc' = "done"
    /\ UNCHANGED <<top_df, top_n>>
    /\ TopOnly

\* _analyze_sales_trends; of the distribution the median is kept, the
\* quartiles and the standard deviation are reals the model leaves out.
AnalyzeSalesTrends(d) ==
    IF HasCol(d, "penjualan_rp")
    THEN [sales_distribution |-> [median |-> Median(d)]]
    ELSE <<>>

-----------------------------------------------------------------------------
(* SalesAnalyzer.analyze_favorite_menus *)

\* "except Exception as e" of analyze_favorite_menus
FavoriteExcept(e) ==
    [success |-> FALSE, error |-> "Error dalam analisis menu favorit: " \o e]

InsufficientData ==
    [success |-> FALSE,
     error |-> "Data tidak cukup untuk analisis menu favorit. Kolom yang diperlukan: jumlah_terjual, persentase_terjual, atau penjualan_rp"]

\* The three conditions of the if / elif chain, each as written.
QuantityUsable(d) ==
    /\ HasCol(d, "jumlah_terjual")
    /\ AnyNotNa(d, "jumlah_terjual")
    /\ SumSkipNa(d, "jumlah_terjual", RowIds(d)) > 0

PercentageUsable(d) ==
    HasCol(d, "persentase_terjual") /\ AnyNotNa(d, "persentase_terjual")

SalesUsable(d) == HasCol(d, "penjualan_rp")

\* round((sales / total_sales) * 100, 2), in hundredths of a percent.
EstimatedFrequency(sales, total_sales) ==
    (2 * 10000 * sales + total_sales) \div (2 * total_sales)

\* The columns a branch selects after nlargest: a missing one is a KeyError.
Selects(d, ranked_by) ==
    {"produk", "penjualan_rp", "kategori", ranked_by} \subseteq d.columns

\* analysis_df when analyze_favorite_menus ends: the copy of d, with the
\* column "estimated_frequency" when the third branch was taken.
FavoriteWorkingFrame(d) ==
    IF ~QuantityUsable(d) /\ ~PercentageUsable(d) /\ SalesUsable(d)
    THEN WithColumn(d, "estimated_frequency")
    ELSE d

\* analyze_favorite_menus(df)
AnalyzeFavoriteMenus(d) ==
    LET ranked(c) == Nlargest(d.rows, RowIds(d), TopN, c)
        total_sales == SumOver(d.rows, "penjualan_rp", RowIds(d))
    IN  IF QuantityUsable(d)
        THEN IF ~Selects(d, "jumlah_terjual") THEN FavoriteExcept("KeyError")
             ELSE LET top == ranked("jumlah_terjual")
                  IN  [success |-> TRUE,
                       favorite_menus |->
                          [k \in 1..Len(top) |->
                             [produk |-> d.rows[top[k]].produk,
                              jumlah_transaksi |-> d.rows[top[k]].jumlah_terjual,
                              penjualan_rp |-> d.rows[top[k]].penjualan_rp,
                              kategori |-> d.rows[top[k]].kategori,
                              ranking_method |-> "Jumlah Transaksi Langsung"]],
                       method |-> "absolute_quantity",
                       total_analyzed |-> Len(top)]
        ELSE IF PercentageUsable(d)
        THEN IF ~Selects(d, "persentase_terjual") THEN FavoriteExcept("KeyError")
             ELSE LET top == ranked("persentase_terjual")
                  IN  [success |-> TRUE,
                       favorite_menus |->
                          [k \in 1..Len(top) |->
                             [produk |-> d.rows[top[k]].produk,
                              persentase_transaksi |->
                                  d.rows[top[k]].persentase_terjual,
                              penjualan_rp |-> d.rows[top[k]].penjualan_rp,
                              kategori |-> d.rows[top[k]].kategori,
                              ranking_method |-> "Persentase Transaksi"]],
                       method |-> "percentage_based",
                       total_analyzed |-> Len(top)]
        ELSE IF SalesUsable(d)
        THEN IF ~Selects(d, "penjualan_rp") THEN FavoriteExcept("KeyError")
             ELSE LET top == ranked("penjualan_rp")
                  IN  [success |-> TRUE,
                       favorite_menus |->
                          [k \in 1..Len(top) |->
                             [produk |-> d.rows[top[k]].produk,
                              estimated_frequency |->
                                  EstimatedFrequency(
                                      d.rows[top[k]].penjualan_rp, total_sales),
                              penjualan_rp |-> d.rows[top[k]].penjualan_rp,
                              kategori |-> d.rows[top[k]].kategori,
                              ranking_method |->
                                  "Estimasi dari Nilai Penjualan"]],
                       method |-> "estimated_from_sales",
                       total_analyzed |-> Len(top),
                       note |-> "Frekuensi transaksi diestimasi dari nilai penjualan relatif"]
        ELSE InsufficientData

-----------------------------------------------------------------------------
(* SalesAnalyzer.analyze_sales *)

AnalysisRowValues ==
    { [produk |-> "Nasi Goreng", jumlah_terjual |-> 3, penjualan_rp |-> 20000,
       kategori |-> "Nasi", persentase_terjual |-> 40],
      [produk |-> "Es Teh", jumlah_terjual |-> 0, penjualan_rp |-> 50000,
       kategori |-> "Minuman", persentase_terjual |-> 60],
      [produk |-> "Kopi", jumlah_terjual |-> NaN, penjualan_rp |-> 30000,
       kategori |-> "Minuman", persentase_terjual |-> NaN] }

\* A numeric column of the model's data has all its values or none: what
\* nlargest does with a partly missing column is left to pandas.
WholeColumn(rows, c) ==
    \/ \A i \in 1..Len(rows) : rows[i][c] # NaN
    \/ \A i \in 1..Len(rows) : rows[i][c] = NaN

AnalysisDatasets ==
    {[columns |-> c, rows |-> r] :
        c \in SUBSET AllColumns,
        r \in {q \in SeqsUpTo(AnalysisRowValues, MaxRows) :
                  /\ WholeColumn(q, "jumlah_terjual")
                  /\ WholeColumn(q, "persentase_terjual")}}

\* A variant of AnalysisExcept without the handler: the exception leaves
\* analyze_sales.
AnalysisRaise(a, e) == [pc |-> "raised", analysis |-> a]

\* "except Exception as e: analysis['success'] = False; analysis['error'] = str(e)"
\* and the return that follows.
AnalysisExcept(a, e) ==
    [pc |-> "returned",
     analysis |-> ("success" :> FALSE) @@ ("error" :> e) @@ a]

AnalysisInit ==
    /\ analysis_pc = "idle"
    /\ adf = NoDataset
    /\ analysis = <<>>
    /\ favorites = NoResult

\* One step of analyze_sales' try block: it raises e, or it stores v under
\* key and the next step is next.
AnalysisStep(raises, e, key, v, next) ==
    /\ IF raises
       THEN /\ analysis_pc' = AnalysisExcept(analysis, e).pc
            /\ analysis' = AnalysisExcept(analysis, e).analysis
       ELSE /\ analysis_pc' = next
            /\ analysis' = (key :> v) @@ analysis
    /\ UNCHANGED <<adf, favorites>>
    /\ AnalysisOnly

\* analyze_sales(df) is called: analysis = {}
AnalyzeSalesCall ==
    /\ analysis_pc = "idle"
    /\ cluster_pc = "idle"
    /\ adf' \in AnalysisDatasets
    /\ analysis' = <<>>
    /\ analysis_pc' = "basic_stats"
    /\ UNCHANGED favorites
    /\ AnalysisOnly

BasicStats ==
    /\ analysis_pc = "basic_stats"
    /\ AnalysisStep(StatsRaises(adf), "KeyError", "basic_stats",
                    IF StatsRaises(adf) THEN <<>> ELSE GetAccurateStats(adf),
                    "category_analysis")

CategoryAnalysis ==
    /\ analysis_pc = "category_analysis"
    /\ AnalysisStep(CategoriesRaises(adf), "KeyError", "category_analysis",
                    IF CategoriesRaises(adf) THEN <<>>
                    ELSE AnalyzeCategories(adf),
                    "top_products")

TopProducts ==
    /\ analysis_pc = "top_products"
    /\ AnalysisStep(TopProductsRaises(adf), "KeyError", "top_products",
                    IF TopProductsRaises(adf) THEN <<>>
                    ELSE AnalyzeTopProducts(adf),
                    "sales_trends")

SalesTrends ==
    /\ analysis_pc = "sales_trends"
    /\ AnalysisStep(FALSE, "", "sales_trends", AnalyzeSalesTrends(adf),
                    "favorite_menus")

FavoriteMenus ==
    /\ analysis_pc = "favorite_menus"
    /\ analysis' = ("favorite_menus" :> AnalyzeFavoriteMenus(adf)) @@ analysis
    /\ adf' = CallerFrame(adf, FavoriteWorkingFrame(adf))
    /\ analysis_pc' = "visualizations"
    /\ UNCHANGED favorites
    /\ AnalysisOnly

\* What drawing the charts may do: all are drawn; the bar chart or the pie
\* chart raises and the handler draws the fallback chart; or the fallback
\* chart raises in the handler as well.
PlotOutcomes == {"drawn", "bar_raised", "pie_raised", "fallback_raised"}

\* _create_visualizations, the dict it returns.
CreateVisualizations(outcome) ==
    CASE outcome = "drawn" ->
            [top_products |-> "chart", category_distribution |-> "chart",
             favorite_menus |-> "chart"]
      [] outcome = "bar_raised" -> [category_distribution |-> "fallback"]
      [] OTHER -> [top_products |-> "chart",
                   category_distribution |-> "fallback"]

\* The charts, then analysis['success'] = True and the return.
Visualizations ==
    /\ analysis_pc = "visualizations"
    /\ \E outcome \in PlotOutcomes :
         IF outcome = "fallback_raised"
         THEN /\ analysis_pc' = AnalysisExcept(analysis, "plot").pc
              /\ analysis' = AnalysisExcept(analysis, "plot").analysis
         ELSE /\ analysis_pc' = "returned"
              /\ analysis' = ("success" :> TRUE)
                                @@ ("visualizations" :> CreateVisualizations(outcome))
                                @@ analysis
    /\ UNCHANGED <<adf, favorites>>
    /\ AnalysisOnly

\* analyze_favorite_menus(df) is called on its own.
FavoriteMenusCall ==
    /\ analysis_pc = "idle"
    /\ cluster_pc = "idle"
    /\ adf' \in AnalysisDatasets
    /\ analysis_pc' = "favorites_call"
    /\ UNCHANGED <<analysis, favorites>>
    /\ AnalysisOnly

\* The body of that call, and its return.
FavoriteMenusRun ==
    /\ analysis_pc = "favorites_call"
    /\ favorites' = AnalyzeFavoriteMenus(adf)
    /\ adf' = CallerFrame(adf, FavoriteWorkingFrame(adf))
    /\ analysis_pc' = "favorites_returned"
    /\ UNCHANGED analysis
    /\ AnalysisOnly

-----------------------------------------------------------------------------
(* The application (app.py): the datasets in memory, the active index, the *)
(* datasets table and the processed folder                                 *)

\* None, and a value that is there.
None == <<>>
Some(x) == <<x>>

\* ALLOWED_EXTENSIONS = {'pdf', 'csv'}
ALLOWED_EXTENSIONS == {"pdf", "csv"}

\* filename.rsplit('.', 1)[1], for a filename with a dot: the text after the
\* last dot.
Extension(filename) ==
    LET dot == CHOOSE i \in 1..Len(filename) :
                   /\ Char(filename, i) = "."
                   /\ \A j \in (i + 1)..Len(filename) : Char(filename, j) # "."
    IN  SubSeq(filename, dot + 1, Len(filename))

\* allowed_file; the two sides of the comparison are upper-cased where the
\* code lower-cases the extension.
AllowedFile(filename) ==
    /\ filename # ""
    /\ Contains(filename, ".")
    /\ Upper(Extension(filename)) \in {Upper(x) : x \in ALLOWED_EXTENSIONS}

\* filename.lower().endswith('.pdf')
IsPdf(filename) ==
    /\ Len(filename) >= 4
    /\ Upper(SubSeq(filename, Len(filename) - 3, Len(filename))) = ".PDF"

\* The datasets of the application model: a product column and a sales
\* column.
AppColumns == {"produk", "penjualan_rp"}

AppRow(name, sales) == [produk |-> name, penjualan_rp |-> sales]

NasiFrame == [columns |-> AppColumns, rows |-> <<AppRow("Nasi Goreng", 20000)>>]

TehFrame == [columns |-> AppColumns, rows |-> <<AppRow("Es Teh", 50000)>>]

\* What pdf_to_csv returns for a document without product lines.
NoProducts == [columns |-> AppColumns, rows |-> <<>>]

\* The files a POST /upload may carry: the name, and the dataset that
\* pd.read_csv reads from it or pdf_to_csv extracts from it.  The same name
\* may come with different contents.
UploadedFiles ==
    { [filename |-> "a.csv", content |-> NasiFrame],
      [filename |-> "menu.pdf", content |-> TehFrame],
      [filename |-> "menu.pdf", content |-> NoProducts],
      [filename |-> "notes.txt", content |-> NasiFrame] }

\* pd.concat([...], ignore_index=True): the rows of the frames, one after
\* the other, under the union of their columns.
RECURSIVE ConcatRows(_)
ConcatRows(frames) ==
    IF frames = <<>> THEN <<>>
    ELSE frames[1].rows \o ConcatRows(Tail(frames))

Concat(frames) ==
    [columns |-> UNION {frames[i].columns : i \in 1..Len(frames)},
     rows |-> ConcatRows(frames)]

\* What the application model keeps of analyze_sales(df)'s result: the
\* dataset the call was made on and its entry basic_stats (absent when
\* _get_accurate_stats raised).
AnalysisResults(d) ==
    [df |-> d,
     basic_stats |-> IF StatsRaises(d) THEN None
                     ELSE Some(GetAccurateStats(d))]

\* What the application model keeps of perform_analysis(df)'s result: the
\* dataset the call was made on, the columns of its feature table and
\* whether the table passed the three-row test.
ClusteringResults(d) ==
    LET f == PrepareFeatures(d)
    IN  [df |-> d,
         features |-> f.columns,
         enough_data |-> ~(IsEmpty(f) \/ f.n < 3)]

\* datetime.now().strftime(...) for the reading t of the clock, in whole
\* seconds, the resolution of the format strings.
Stamp(t) == ToString(t)

\* f"processed_{...}.csv"
ProcessedName(t) == "processed_" \o Stamp(t) \o ".csv"

\* f'Gabungan_{...}'
CombinedName(t) == "Gabungan_" \o Stamp(t)

\* csv_path of upload_file, within the processed folder.
CsvPath(filename, t) == IF IsPdf(filename) THEN ProcessedName(t) ELSE filename

\* The processed folder after frame.to_csv(path, index=False).
WriteFile(folder, path, frame) ==
    [p \in (DOMAIN folder) \cup {path} |->
        IF p = path THEN Snapshot(frame) ELSE folder[p]]

\* pd.read_csv of a file that to_csv wrote.
ReadCsv(file) == file[1]

\* The empty processed folder.
NoFiles == [p \in {} |-> <<>>]

\* save_to_db: the row gets the id after the largest one given out so far
\* ("id INTEGER PRIMARY KEY AUTOINCREMENT").  The column upload_time, which
\* the program only displays, is left out of the rows and of the entries of
\* data_history.
SaveToDb(table, last_id, filename, data_path) ==
    Append(table, [id |-> last_id + 1, filename |-> filename,
                   data_path |-> data_path])

\* clear_db
ClearDb(table) == <<>>

\* load_from_db
LoadFromDb(table) == table

\* dataset_info of upload_file
DatasetInfo(d, filename) ==
    [data |-> d, filename |-> filename,
     clustering_results |-> None, analysis_results |-> None]

\* The list position that data_history[i] names: a negative i counts from
\* the end; 0 stands for IndexError.
Subscript(history, i) ==
    IF 0 <= i /\ i < Len(history) THEN i + 1
    ELSE IF i < 0 /\ -i <= Len(history) THEN Len(history) + i + 1
    ELSE 0

\* data_history after data_history[i][key] = results, for a valid i.
StoreResults(history, i, key, results) ==
    [history EXCEPT ![Subscript(history, i)][key] = Some(results)]

\* get_current_data
GetCurrentData(history, i) ==
    IF 0 <= i /\ i < Len(history) THEN Some(history[i + 1]) ELSE None

\* data_history after load_all_data's loop over the rows, started from the
\* empty list of a new process.
RECURSIVE LoadRows(_, _)
LoadRows(rows, folder) ==
    IF rows = <<>> THEN <<>>
    ELSE LET row == rows[1]
             d == ReadCsv(folder[row.data_path])
         IN  (IF row.data_path \in DOMAIN folder
              THEN <<[data |-> d, filename |-> row.filename,
                      analysis_results |-> Some(AnalysisResults(d)),
                      clustering_results |-> Some(ClusteringResults(d))]>>
              ELSE <<>>)
             \o LoadRows(Tail(rows), folder)

LoadAllData(table, folder) == LoadRows(LoadFromDb(table), folder)

\* current_dataset_index after select_dataset(dataset_index)
SelectIndex(i, dataset_index, history) ==
    IF 0 <= dataset_index /\ dataset_index < Len(history)
    THEN dataset_index ELSE i

\* A variant of IndexAfterPop without the reset to the first entry.
IndexAfterPopNoReset(i, history) == i - 1

\* current_dataset_index of clear_current_data after the pop at i left
\* history: "current_dataset_index -= 1", then 0 when that is negative and
\* datasets remain.
IndexAfterPop(i, history) ==
    IF i - 1 < 0 /\ history # <<>> THEN 0 ELSE i - 1

\* list.pop(i) for a valid i: the list without its entry i.
Pop(history, i) ==
    SubSeq(history, 1, i) \o SubSeq(history, i + 2, Len(history))

\* The ids the table gives out, hence the datasets saved, in a behaviour.
MaxIds == 3

\* The upload requests served at a time.
MaxRequests == 2

Requests == 1..MaxRequests

\* The readings of datetime.now(), the local wall clock, in seconds: a later
\* reading may be the same second, or an earlier one after the clock was
\* set back.
Clock == {0, 1}

\* An upload request that is not being served.
IdleUpload ==
    [pc |-> "idle", filename |-> "", df |-> NoDataset, csv_path |-> ""]

\* A new installation after init_db and load_all_data: no row, no dataset.
AppInit ==
    /\ data_history = <<>>
    /\ current_dataset_index = -1
    /\ datasets = <<>>
    /\ sqlite_sequence = 0
    /\ processed = NoFiles
    /\ uploads = [r \in Requests |-> IdleUpload]

AppIdle == AppInit

\* DataFrame.empty, for a dataset with its columns as a set.
FrameEmpty(d) == d.columns = {} \/ d.rows = <<>>

\* POST /upload, served without another request in between.  A file of
\* another type is refused; a PDF without products is written to the
\* processed folder and not stored; any other file is stored, recorded in
\* the table and analysed.  t is the reading of the clock that names the
\* file written for a PDF.
UploadFile ==
    /\ sqlite_sequence < MaxIds
    /\ \E file \in UploadedFiles : \E t \in Clock :
         LET filename == file.filename
             d == file.content
             csv_path == CsvPath(filename, t)
             appended == Append(data_history, DatasetInfo(d, filename))
             index == Len(appended) - 1
         IN  IF ~AllowedFile(filename)
             THEN UNCHANGED <<data_history, current_dataset_index, db_vars,
                              processed>>
             ELSE IF IsPdf(filename) /\ FrameEmpty(d)
             THEN /\ processed' = WriteFile(processed, csv_path, d)
                  /\ UNCHANGED <<data_history, current_dataset_index, db_vars>>
             ELSE /\ processed' = WriteFile(processed, csv_path, d)
                  /\ current_dataset_index' = index
                  /\ datasets' = SaveToDb(datasets, sqlite_sequence, filename,
                                          csv_path)
                  /\ sqlite_sequence' = sqlite_sequence + 1
                  /\ data_history' =
                        StoreResults(
                            StoreResults(appended, index, "analysis_results",
                                         AnalysisResults(d)),
                            index, "clustering_results", ClusteringResults(d))
    /\ UNCHANGED uploads
    /\ AppOnly

\* GET /select_dataset/<int:dataset_index>; the route's converter accepts
\* no negative number.
SelectDataset ==
    /\ \E dataset_index \in 0..MaxIds :
         current_dataset_index' =
             SelectIndex(current_dataset_index, dataset_index, data_history)
    /\ UNCHANGED <<data_history, db_vars, processed, uploads>>
    /\ AppOnly

\* GET /combined_data; t is the reading of the clock that names the dataset.
CombinedData ==
    /\ sqlite_sequence < MaxIds
    /\ IF Len(data_history) < 2
       THEN UNCHANGED <<data_history, current_dataset_index, db_vars, processed>>
       ELSE LET combined_df ==
                    Concat([i \in 1..Len(data_history) |-> data_history[i].data])
            IN  \E t \in Clock :
                    LET dataset_info ==
                            [data |-> combined_df,
                             filename |-> CombinedName(t),
                             analysis_results |->
                                 Some(AnalysisResults(combined_df)),
                             clustering_results |->
                                 Some(ClusteringResults(combined_df))]
                        csv_path == dataset_info.filename \o ".csv"
                    IN  /\ data_history' = Append(data_history, dataset_info)
                        /\ current_dataset_index' = Len(data_history') - 1
                        /\ processed' = WriteFile(processed, csv_path, combined_df)
                        /\ datasets' = SaveToDb(datasets, sqlite_sequence,
                                                dataset_info.filename, csv_path)
                        /\ sqlite_sequence' = sqlite_sequence + 1
    /\ UNCHANGED uploads
    /\ AppOnly

\* POST /clear-all-data
ClearAllData ==
    /\ data_history' = <<>>
    /\ current_dataset_index' = -1
    /\ datasets' = ClearDb(datasets)
    /\ UNCHANGED <<sqlite_sequence, processed, uploads>>
    /\ AppOnly

\* POST /clear-current-data
ClearCurrentData ==
    /\ IF 0 <= current_dataset_index /\ current_dataset_index < Len(data_history)
       THEN /\ data_history' = Pop(data_history, current_dataset_index)
            /\ current_dataset_index' =
                   IndexAfterPop(current_dataset_index, data_history')
       ELSE UNCHANGED <<data_history, current_dataset_index>>
    /\ UNCHANGED <<db_vars, processed, uploads>>
    /\ AppOnly

\* The process ends and is started again: the module's globals are new,
\* then init_db and load_all_data run before the first request is served.
\* Requests that were being served are gone.
Restart ==
    /\ data_history' = LoadAllData(datasets, processed)
    /\ current_dataset_index' =
           IF data_history' # <<>> THEN Len(data_history') - 1 ELSE -1
    /\ uploads' = [r \in Requests |-> IdleUpload]
    /\ UNCHANGED <<db_vars, processed>>
    /\ AppOnly

\* ---- POST /upload in four steps, for requests served by concurrent
\* ---- threads: another request may be served between two steps

\* Lines 129-154: the file is refused, or read (or extracted) and written
\* to the processed folder; a PDF without products ends the request.  A
\* request is taken while the table has an id left for it.
UploadBegin == \E r \in Requests :
    /\ uploads[r].pc = "idle"
    /\ sqlite_sequence + Cardinality({q \in Requests : uploads[q].pc = "append"})
           < MaxIds
    /\ \E file \in UploadedFiles : \E t \in Clock :
         LET filename == file.filename
             d == file.content
             csv_path == CsvPath(filename, t)
         IN  IF ~AllowedFile(filename)
             THEN UNCHANGED <<processed, uploads>>
             ELSE /\ processed' = WriteFile(processed, csv_path, d)
                  /\ IF IsPdf(filename) /\ FrameEmpty(d)
                     THEN UNCHANGED uploads
                     ELSE uploads' =
                              [uploads EXCEPT ![r] =
                                  [pc |-> "append", filename |-> filename,
                                   df |-> d, csv_path |-> csv_path]]
    /\ UNCHANGED <<data_history, current_dataset_index, db_vars>>
    /\ AppOnly

\* Lines 157-167: dataset_info is made and appended, the index is set to
\* the last entry and the row is saved; the three statements are short and
\* taken together.
UploadAppend == \E r \in Requests :
    /\ uploads[r].pc = "append"
    /\ sqlite_sequence < MaxIds
    /\ data_history' =
           Append(data_history, DatasetInfo(uploads[r].df, uploads[r].filename))
    /\ current_dataset_index' = Len(data_history') - 1
    /\ datasets' = SaveToDb(datasets, sqlite_sequence, uploads[r].filename,
                            uploads[r].csv_path)
    /\ sqlite_sequence' = sqlite_sequence + 1
    /\ uploads' = [uploads EXCEPT ![r].pc = "store_analysis"]
    /\ UNCHANGED processed
    /\ AppOnly

\* The end of an upload request: its locals are gone.
UploadDone(r) == uploads' = [uploads EXCEPT ![r] = IdleUpload]

\* Lines 170-174: the two analyses of the request's own df, which take the
\* longest part of the request, then
\* data_history[current_dataset_index]['analysis_results'] = ...; an
\* IndexError is caught by the handler's except clause and ends the request.
UploadStoreAnalysis == \E r \in Requests :
    /\ uploads[r].pc = "store_analysis"
    /\ IF Subscript(data_history, current_dataset_index) = 0
       THEN /\ UploadDone(r)
            /\ UNCHANGED data_history
       ELSE /\ data_history' =
                   StoreResults(data_history, current_dataset_index,
                                "analysis_results",
                                AnalysisResults(uploads[r].df))
            /\ uploads' = [uploads EXCEPT ![r].pc = "store_clustering"]
    /\ UNCHANGED <<current_dataset_index, db_vars, processed>>
    /\ AppOnly

\* Line 175: data_history[current_dataset_index]['clustering_results'] = ...
UploadStoreClustering == \E r \in Requests :
    /\ uploads[r].pc = "store_clustering"
    /\ IF Subscript(data_history, current_dataset_index) = 0
       THEN UNCHANGED data_history
       ELSE data_history' =
                StoreResults(data_history, current_dataset_index,
                             "clustering_results",
                             ClusteringResults(uploads[r].df))
    /\ UploadDone(r)
    /\ UNCHANGED <<current_dataset_index, db_vars, processed>>
    /\ AppOnly

-----------------------------------------------------------------------------
(* Specifications: one per component, the others at rest *)

ParseNext == ParseFloat

InitParse == ParseInit /\ LineIdle /\ TopIdle /\ PageIdle /\ PdfInit /\ AppIdle /\ ClusterInit /\ AnalysisInit

SpecParse == InitParse /\ [][ParseNext]_vars

InitPdf == ParseIdle /\ LineIdle /\ TopIdle /\ PageIdle /\ PdfInit /\ AppIdle /\ ClusterInit /\ AnalysisInit

SpecPdf == InitPdf /\ [][PdfNext]_vars

LineNext == ExtractLine

InitLine == ParseIdle /\ LineInit /\ TopIdle /\ PageIdle /\ PdfInit /\ AppIdle /\ ClusterInit /\ AnalysisInit

SpecLine == InitLine /\ [][LineNext]_vars

PageNext == ProcessPage

InitPage ==
    /\ ParseIdle /\ LineIdle /\ TopIdle /\ PageInit
    /\ PdfInit /\ AppIdle /\ ClusterInit /\ AnalysisInit

SpecPage == InitPage /\ [][PageNext]_vars

TopNext == TopProductsCall

InitTop == ParseIdle /\ LineIdle /\ TopInit /\ PageIdle /\ PdfInit /\ AppIdle /\ ClusterInit /\ AnalysisInit

SpecTop == InitTop /\ [][TopNext]_vars

\* The two analysis pipelines; a behaviour follows one call of one of them.
InitCore == ParseIdle /\ LineIdle /\ TopIdle /\ PageIdle /\ PdfInit /\ AppIdle /\ ClusterInit /\ AnalysisInit

CoreNext ==
    \/ BeginAnalysis
    \/ FindOptimalClusters
    \/ PerformClustering
    \/ AnalyzeSegments
    \/ ReturnResult
    \/ AnalyzeSalesCall
    \/ BasicStats
    \/ CategoryAnalysis
    \/ TopProducts
    \/ SalesTrends
    \/ FavoriteMenus
    \/ Visualizations
    \/ FavoriteMenusCall
    \/ FavoriteMenusRun

SpecCore == InitCore /\ [][CoreNext]_vars

\* perform_analysis on an instance that has analysed a dataset before: its
\* scaler is fitted on that dataset's feature table, one that no dataset of
\* ClusterDatasets gives.
EarlierTable == [columns |-> <<"quantity_sold">>, n |-> 3]

InitScaler ==
    /\ ParseIdle /\ LineIdle /\ TopIdle /\ PageIdle /\ PdfInit /\ AppIdle /\ AnalysisInit
    /\ cluster_pc = "idle"
    /\ cdf = NoDataset
    /\ features_df = NoFeatures
    /\ trials = <<>>
    /\ silhouette_scores = <<>>
    /\ optimal_clusters = 0
    /\ labels = <<>>
    /\ segments = NoSegments
    /\ scaler = <<EarlierTable>>
    /\ cluster_result = NoResult

ScalerNext ==
    \/ BeginAnalysis
    \/ FindOptimalClusters
    \/ PerformClustering
    \/ AnalyzeSegments
    \/ ReturnResult

SpecScaler == InitScaler /\ [][ScalerNext]_vars

\* _find_optimal_clusters(features_df) on its own, for tables of up to
\* MaxTableRows rows; what the columns hold is scikit-learn's business.
MaxTableRows == 8

InitSelect ==
    /\ ParseIdle /\ LineIdle /\ TopIdle /\ PageIdle /\ PdfInit /\ AppIdle /\ AnalysisInit
    /\ cluster_pc = "select"
    /\ cdf = NoDataset
    /\ features_df \in {[columns |-> <<"total_sales">>, n |-> n] :
                            n \in 0..MaxTableRows}
    /\ trials = <<>>
    /\ silhouette_scores = <<>>
    /\ optimal_clusters = 0
    /\ labels = <<>>
    /\ segments = NoSegments
    /\ scaler = <<>>
    /\ cluster_result = NoResult

SelectNext == FindOptimalClusters

SpecSelect == InitSelect /\ [][SelectNext]_vars

\* _analyze_customer_segments(df, labels) on its own, for datasets whose
\* sales lie on and next to the thresholds of _name_segment.
MaxSegmentRows == 2
MaxSegments == 3

SegmentSales ==
    {1000000, 1000001, 10000000, 10000001, 50000000, 50000001}

SegmentDatasets ==
    {[columns |-> {"produk", "jumlah_terjual", "penjualan_rp", "kategori"},
      rows |-> r] :
        r \in SeqsUpTo({[produk |-> "Paket", jumlah_terjual |-> 1,
                         penjualan_rp |-> v, kategori |-> "Nasi",
                         persentase_terjual |-> 0] : v \in SegmentSales},
                       MaxSegmentRows) \ {<<>>}}

InitSegments ==
    /\ ParseIdle /\ LineIdle /\ TopIdle /\ PageIdle /\ PdfInit /\ AppIdle /\ AnalysisInit
    /\ cluster_pc = "segments"
    /\ cdf \in SegmentDatasets
    /\ labels \in KMeansLabels(Len(cdf.rows), MaxSegments)
    /\ features_df = NoFeatures
    /\ trials = <<>>
    /\ silhouette_scores = <<>>
    /\ optimal_clusters = 0
    /\ segments = NoSegments
    /\ scaler = <<>>
    /\ cluster_result = NoResult

SegmentsNext == AnalyzeSegments

SpecSegments == InitSegments /\ [][SegmentsNext]_vars

-----------------------------------------------------------------------------
(* Properties of PDFProcessor.pdf_to_csv *)

\* C1: the dataset one pdf_to_csv run returns holds at most one record per
\* product name, whether the repeated name is on the same page or on a later
\* one.
C1_OneRecordPerName ==
    pdf_pc = "returned" =>
        \A i, j \in 1..Len(df.rows) :
            df.rows[i].produk = df.rows[j].produk => i = j

\* C2: _parse_float_safe keeps only digits, commas and periods; a cleaned text
\* in the dot-grouped format is read with dots as thousands separators and the
\* comma as decimal point, any other with its commas discarded; a parsed value
\* below 10,000 is returned multiplied by 1,000, a value of 10,000 or more as
\* it is, and text float() rejects gives 0; "7.000,50" gives 7,000,500 and
\* "1.234.567" gives 1,234,567.
C2_ParseFloatSafe ==
    parse_pc = "done" =>
        LET kept      == Digits \cup {",", "."}
            allDigits == DigitsValue(KeepChars(text, Digits))
            nodigit   == CountChars(text, Digits) = 0
            dots      == {i \in 1..Len(clean_text) : Char(clean_text, i) = "."}
            \* digits after the period, when there is exactly one
            decimals  == CountChars(SubSeq(clean_text,
                                           (CHOOSE i \in dots : TRUE) + 1,
                                           Len(clean_text)), Digits)
        IN  /\ Len(clean_text) = CountChars(text, kept)
            /\ CountChars(clean_text, kept) = Len(clean_text)
            /\ IsIndonesianFormat(clean_text) =>
                   /\ parsed # <<>>
                   /\ IF CountChars(clean_text, {","}) = 1
                      THEN Shift(parsed[1], 2) = Dec(allDigits)
                      ELSE parsed[1] = Dec(allDigits)
            /\ ~IsIndonesianFormat(clean_text) =>
                   /\ parsed = <<>> <=> (nodigit \/ Cardinality(dots) > 1)
                   /\ parsed # <<>> /\ dots = {} => parsed[1] = Dec(allDigits)
                   /\ parsed # <<>> /\ dots # {} =>
                          Shift(parsed[1], decimals) = Dec(allDigits)
            /\ parsed = <<>> => value = Dec(0)
            /\ parsed # <<>> /\ Floor(parsed[1]) < 10000 =>
                   value.m * Pow10(parsed[1].d)
                       = parsed[1].m * 1000 * Pow10(value.d)
            /\ parsed # <<>> /\ Floor(parsed[1]) >= 10000 => value = parsed[1]
            /\ text = "7.000,50" => value = Dec(7000500)
            /\ text = "1.234.567" => value = Dec(1234567)

\* C2's case: the dot-grouped amount with a comma decimal has been parsed and
\* scaled up.
C2_Witness ==
    /\ parse_pc = "done"
    /\ text = "7.000,50"
    /\ IsIndonesianFormat(clean_text)
    /\ value = Dec(7000500)

\* C3: no record of the dataset returned, which is the dataset written to the
\* snapshot, has sales of 1,000,000,000 or more, and every extracted record
\* with sales below that is kept.
C3_OutlierFilter ==
    pdf_pc = "returned" =>
        LET below(r) == Floor(r.penjualan_rp) < 1000000000
        IN  /\ \A i \in 1..Len(df.rows) : below(df.rows[i])
            /\ \A i \in 1..Len(all_products) :
                   below(all_products[i]) =>
                       \E j \in 1..Len(df.rows) : df.rows[j] = all_products[i]
            /\ Len(df.rows) = Cardinality({i \in 1..Len(all_products) :
                                               below(all_products[i])})
            /\ csv_file = <<df>>

\* C3's case: a record at the ceiling and one just below it were extracted,
\* and the run returned.
C3_Witness ==
    /\ pdf_pc = "returned"
    /\ \E i \in 1..Len(all_products) :
           all_products[i].penjualan_rp = Dec(1000000000)
    /\ \E i \in 1..Len(df.rows) : df.rows[i].penjualan_rp = Dec(999999999)

\* C7: when no line of any page gave a record, pdf_to_csv returns (and
\* writes) an empty dataset with the five canonical columns.
C7_EmptyExtraction ==
    pdf_pc = "returned" /\ all_products = <<>> =>
        /\ df.rows = <<>>
        /\ df.columns =
               <<"produk", "jumlah_terjual", "penjualan_rp", "kategori",
                 "tanggal">>
        /\ csv_file = <<df>>

\* C7's case: pages were read, every line was rejected, and the run returned.
C7_Witness ==
    /\ pdf_pc = "returned"
    /\ all_products = <<>>
    /\ page_num >= 1
    /\ rejected >= 2


\* C4: _find_optimal_clusters returns exactly 2 for a table of at most 3
\* rows and runs no trial for it; for 4 rows or more it returns a count k
\* with 2 <= k <= min(6, n - 1), whatever the trials' scores are and
\* whichever trials fail.
C4_OptimalClustersRange ==
    cluster_pc = "cluster" =>
        IF features_df.n <= 3
        THEN /\ optimal_clusters = 2
             /\ trials = <<>>
             /\ silhouette_scores = <<>>
        ELSE /\ 2 <= optimal_clusters
             /\ optimal_clusters <= 6
             /\ optimal_clusters <= features_df.n - 1

\* The selector returned 6 for a table of 8 rows although a trial failed.
C4_Witness ==
    /\ cluster_pc = "cluster"
    /\ features_df.n = 8
    /\ optimal_clusters = 6
    /\ \E i \in 1..Len(trials) : trials[i].kind = "raised"
    /\ \E i \in 1..Len(trials) : trials[i].kind = "scored"

\* C5: analyze_favorite_menus uses exactly one ranking tier, chosen by the
\* columns available: a quantity column with a value and a positive sum
\* gives the ranking by quantity (also when there is a percentage column),
\* else a percentage column with a value gives the ranking by percentage,
\* else a sales column gives the ranking by share of the sales, else the
\* result is the "insufficient data" failure.
C5_TierByAvailability ==
    analysis_pc = "favorites_returned" =>
        LET uses(m, key) ==
                /\ favorites.success
                /\ "method" \in DOMAIN favorites
                /\ favorites.method = m
                /\ \A k \in 1..Len(favorites.favorite_menus) :
                      key \in DOMAIN favorites.favorite_menus[k]
        IN  IF QuantityUsable(adf)
            THEN uses("absolute_quantity", "jumlah_transaksi")
            ELSE IF PercentageUsable(adf)
            THEN uses("percentage_based", "persentase_transaksi")
            ELSE IF SalesUsable(adf)
            THEN uses("estimated_from_sales", "estimated_frequency")
            ELSE favorites = InsufficientData

\* C6: a segment is named by its average sales per product with strict
\* thresholds: above 50,000,000 Premium, above 10,000,000 High-Value, above
\* 1,000,000 Medium-Value, otherwise Standard; an average of exactly a
\* threshold gets the lower name.
C6_StrictThresholds ==
    cluster_pc = "visualize" =>
        \A id \in DOMAIN segments :
            LET g == segments[id]
                n == g.segment_size
                total == g.total_sales
            IN  n > 0 =>
                  g.segment_name =
                    IF total > 50000000 * n THEN "Produk Premium"
                    ELSE IF total > 10000000 * n THEN "Produk High-Value"
                    ELSE IF total > 1000000 * n THEN "Produk Medium-Value"
                    ELSE "Produk Standard"

\* A segment of one product of sales 50,000,000 named High-Value next to a
\* segment of one product of sales 50,000,001 named Premium.
C6_Witness ==
    /\ cluster_pc = "visualize"
    /\ \E a, b \in DOMAIN segments :
          /\ segments[a].segment_size = 1
          /\ segments[a].total_sales = 50000000
          /\ segments[a].segment_name = "Produk High-Value"
          /\ segments[b].segment_size = 1
          /\ segments[b].total_sales = 50000001
          /\ segments[b].segment_name = "Produk Premium"

\* C8: no failure inside a step of analyze_sales or of perform_analysis
\* leaves the pipeline: each returns a result, and the result of a call in
\* which a step failed has success = false and carries the error.
C8_NoPropagation ==
    /\ analysis_pc # "raised"
    /\ cluster_pc # "raised"
    /\ analysis_pc = "returned" =>
          /\ "success" \in DOMAIN analysis
          /\ ~analysis.success => "error" \in DOMAIN analysis
          /\ (StatsRaises(adf) \/ CategoriesRaises(adf) \/ TopProductsRaises(adf))
                => ~analysis.success /\ analysis.error = "KeyError"
    /\ cluster_pc = "returned" =>
          /\ "success" \in DOMAIN cluster_result
          /\ ~cluster_result.success => "error" \in DOMAIN cluster_result

\* analyze_sales returned the failure of its third step, with the results of
\* the two steps before it.
C8_Witness ==
    /\ analysis_pc = "returned"
    /\ ~StatsRaises(adf) /\ ~CategoriesRaises(adf) /\ TopProductsRaises(adf)
    /\ ~analysis.success
    /\ analysis.error = "KeyError"
    /\ "category_analysis" \in DOMAIN analysis

\* C9: perform_analysis returns the "not enough data" failure, and runs
\* neither the selection of the cluster count nor the clustering, exactly
\* when the feature table has fewer than 3 rows or no column left; otherwise
\* it goes on to the selection and the clustering.
C9_ShortCircuit ==
    cluster_pc # "idle" =>
        IF features_df.n < 3 \/ Len(features_df.columns) = 0
        THEN /\ cluster_pc = "returned"
             /\ cluster_result = NotEnoughData
             /\ optimal_clusters = 0
             /\ trials = <<>>
             /\ labels = <<>>
             /\ scaler = <<>>
        ELSE /\ cluster_result # NotEnoughData
             /\ cluster_pc = "returned" /\ cluster_result.success =>
                    optimal_clusters >= 2 /\ Len(labels) = features_df.n

\* A dataset of 3 rows or more whose feature table has no column left was
\* answered with the "not enough data" failure.
C9_Witness ==
    /\ cluster_pc = "returned"
    /\ Len(cdf.rows) >= 3
    /\ features_df.columns = <<>>
    /\ cluster_result = NotEnoughData

\* C10 (as stated): the labels of _perform_clustering for k clusters lie in
\* 1..k and the segment ids use the same 1-based numbering.
C10_OneBasedLabels ==
    cluster_pc \in {"visualize", "returned"} /\ labels # <<>> =>
        /\ \A i \in 1..Len(labels) : labels[i] \in 1..optimal_clusters
        /\ DOMAIN segments \subseteq 1..optimal_clusters

\* C10 (amended): the labels of _perform_clustering for k clusters lie in
\* 0..k-1, and the segment ids are 0..max(labels), the same 0-based
\* numbering.
C10_ZeroBasedLabels ==
    /\ labels # <<>> /\ optimal_clusters > 0 =>
          \A i \in 1..Len(labels) : labels[i] \in 0..(optimal_clusters - 1)
    /\ cluster_pc \in {"visualize", "returned"} /\ labels # <<>>
          /\ optimal_clusters > 0 =>
          /\ DOMAIN segments \subseteq 0..(optimal_clusters - 1)
          /\ 0 \in DOMAIN segments
          /\ \A i \in 1..Len(labels) : labels[i] \in DOMAIN segments

\* perform_analysis returned a segmentation whose labels and segment ids
\* start at 0.
C10_Witness ==
    /\ cluster_pc = "returned"
    /\ cluster_result.success
    /\ \E i \in 1..Len(labels) : labels[i] = 0
    /\ segments[0].segment_size > 0


\* C11: the category of a record is that of the first keyword of the table,
\* in table order, that is a substring of the upper-cased product name, and
\* the default category when no keyword is; a name holding PAKET AYAM gets
\* the package category whatever later keyword it also holds.
C11_FirstKeywordWins ==
    line_pc = "done" /\ product_data # <<>> =>
        LET upper == Upper(product_data[1].produk)
            hit(i) == Contains(upper, CategoryMapping[i][1])
        IN  /\ \/ \E i \in 1..Len(CategoryMapping) :
                     /\ hit(i)
                     /\ \A j \in 1..(i - 1) : ~hit(j)
                     /\ product_data[1].kategori = CategoryMapping[i][2]
               \/ /\ \A i \in 1..Len(CategoryMapping) : ~hit(i)
                  /\ product_data[1].kategori = "Lainnya"
            /\ Contains(upper, "PAKET AYAM") =>
                  product_data[1].kategori = "Paket Ayam"

\* "Nasi Paket Ayam" holds the keywords PAKET AYAM and NASI and got the
\* package category.
C11_Witness ==
    /\ line_pc = "done"
    /\ product_data # <<>>
    /\ product_data[1].produk = "Nasi Paket Ayam"
    /\ product_data[1].kategori = "Paket Ayam"


\* C12: a call of pdf_to_csv that returns a dataset has written that same
\* dataset, the one left by the outlier pass, empty or not, to the CSV
\* snapshot before it returns.
C12_WrittenBeforeReturn ==
    pdf_pc = "returned" =>
        /\ df = BuildFrame(all_products)
        /\ csv_file = <<df>>

\* pdf_to_csv returned an empty dataset, all of whose extracted records the
\* outlier pass removed, and the snapshot holds it.
C12_Witness ==
    /\ pdf_pc = "returned"
    /\ all_products # <<>>
    /\ df.rows = <<>>
    /\ csv_file = <<df>>


\* C13: for every dataset that has the product-name and sales columns,
\* analyze_sales returns success = true whichever of the optional columns
\* (quantity, category, percentage) are absent (a failure of the plotting
\* itself set aside), an absent column only leaving its own output empty or
\* zero: an empty category rollup, a total quantity of 0.
C13_OptionalColumns ==
    analysis_pc = "returned" /\ {"produk", "penjualan_rp"} \subseteq adf.columns =>
        \/ /\ ~analysis.success
           /\ analysis.error = "plot"
        \/ /\ analysis.success
           /\ ~HasCol(adf, "kategori") => analysis.category_analysis = <<>>
           /\ ~HasCol(adf, "jumlah_terjual") =>
                 analysis.basic_stats.total_quantity = 0


\* C14: the scaler statistics applied in _find_optimal_clusters and in
\* _perform_clustering are those of the call's own feature table, whatever
\* table the instance's scaler was fitted on by an earlier call.
C14_OwnStatistics ==
    /\ cluster_pc = "cluster" /\ features_df.n > 3 => scaler = <<features_df>>
    /\ cluster_pc \in {"segments", "visualize"} => scaler = <<features_df>>
    /\ cluster_pc = "returned" /\ cluster_result.success =>
          scaler = <<features_df>>

\* On an instance whose scaler held the statistics of an earlier table, the
\* clustering of a table of 3 rows (for which the selection fits nothing)
\* has refitted the scaler on that table.
C14_Witness ==
    /\ cluster_pc = "segments"
    /\ features_df.n = 3
    /\ features_df # EarlierTable
    /\ scaler = <<features_df>>


\* C15: analyze_sales, analyze_favorite_menus and perform_analysis leave the
\* dataset passed to them as it was: from the call on it keeps its rows, its
\* columns and its values; derived columns go to a copy.
C15_DatasetUnchanged ==
    [][/\ analysis_pc # "idle" => adf' = adf
       /\ cluster_pc # "idle" => cdf' = cdf]_vars

\* analyze_favorite_menus ranked a dataset by the estimated frequency and
\* the dataset has no such column.
C15_Witness ==
    /\ analysis_pc = "favorites_returned"
    /\ favorites.success
    /\ favorites.method = "estimated_from_sales"
    /\ favorites.total_analyzed > 0
    /\ FavoriteWorkingFrame(adf) # adf
    /\ "estimated_frequency" \notin adf.columns


\* C16: _analyze_top_products returns min(N, row count) rows, the rows of
\* largest sales, in non-increasing order of sales, rows of equal sales in
\* their insertion order; for five rows of sales 100, 200, 300, 400, 500 it
\* returns all five, starting with 500.
C16_TopProducts ==
    top_pc = "done" =>
        LET rows == top_df.rows
            n == Len(top_products)
        IN  /\ n = (IF top_n <= Len(rows) THEN top_n ELSE Len(rows))
            /\ \E idx \in [1..n -> 1..Len(rows)] :
                  /\ \A k \in 1..n :
                        /\ top_products[k].produk = rows[idx[k]].produk
                        /\ top_products[k].penjualan_rp =
                               rows[idx[k]].penjualan_rp
                  /\ \A k, l \in 1..n : k < l =>
                        \/ rows[idx[k]].penjualan_rp > rows[idx[l]].penjualan_rp
                        \/ /\ rows[idx[k]].penjualan_rp =
                                  rows[idx[l]].penjualan_rp
                           /\ idx[k] < idx[l]
                  /\ \A j \in 1..Len(rows) : \A k \in 1..n :
                        (\A l \in 1..n : idx[l] # j) =>
                            rows[j].penjualan_rp <= rows[idx[k]].penjualan_rp
            /\ rows = FiveProducts /\ top_n = TopN =>
                  n = 5 /\ top_products[1].penjualan_rp = 500

\* Of the products B (200), A (200), D (300), in this order, the two of
\* largest sales were asked for, and D and B came back: B, of the same sales
\* as A, stands before it.
C16_Witness ==
    /\ top_pc = "done"
    /\ top_n = 2
    /\ Len(top_df.rows) = 3
    /\ top_df.rows[1].produk = "B"
    /\ top_df.rows[2].produk = "A"
    /\ top_df.rows[3].produk = "D"
    /\ Len(top_products) = 2
    /\ top_products[1].produk = "D"
    /\ top_products[2].produk = "B"


\* C17: every record of the extraction has a non-empty product name and a
\* sales amount above 0; a blank line, a line without "Rp", a line with no
\* token before the first token starting with "Rp", a line with a header or
\* footer keyword and a line whose sales amount parses to 0 give no record,
\* and such a line does not keep a later line of the same name from giving
\* its record.
C17_RecordsAreValid ==
    page_pc = "done" =>
        LET name(i) == Join(ProductNameParts(page_text[i]))
            sales(i) == ExtractSalesAmount(page_text[i])
            lines == 1..Len(page_text)
            records == 1..Len(page_products)
            gives_none(i) ==
                LET l == page_text[i]
                IN  \/ Len(l) = 0
                    \/ \A k \in 1..Len(l) : ~Contains(l[k], "Rp")
                    \/ StartsWith(l[1], "Rp")
                    \/ \E k \in 1..Len(l) : \E w \in HeaderKeywords :
                          Contains(l[k], w)
                    \/ sales(i) = Dec(0)
            from(r, i) == /\ page_products[r].produk = name(i)
                          /\ page_products[r].penjualan_rp = sales(i)
        IN  /\ \A r \in records :
                  /\ page_products[r].produk # ""
                  /\ DecPositive(page_products[r].penjualan_rp)
            /\ \A i \in lines : \A r \in records :
                  gives_none(i) /\ from(r, i) =>
                      \E j \in lines : ~gives_none(j) /\ from(r, j)
            /\ \A i, j \in lines :
                  /\ i < j
                  /\ gives_none(i) /\ ~gives_none(j)
                  /\ name(i) = name(j)
                  /\ \A k \in 1..(j - 1) : gives_none(k) \/ name(k) # name(j)
                  => \E r \in records : from(r, j)

\* "Kopi Rp0" gave no record and the next line "Kopi Rp15.000" gave its
\* record.
C17_Witness ==
    /\ page_pc = "done"
    /\ page_text = << <<"Kopi", "Rp0">>, <<"Kopi", "Rp15.000">> >>
    /\ Len(page_products) = 1
    /\ page_products[1].produk = "Kopi"
    /\ page_products[1].penjualan_rp = Dec(15000)


\* C18: the quantity of an extracted record is the number denoted by the
\* first token of the line, name tokens included, that matches the
\* comma-grouped numeral pattern, and 0 when no token matches: a first
\* matching token "5" gives 5 and "1,234" gives 1234.
C18_QuantityIsFirstNumeral ==
    line_pc = "done" /\ product_data # <<>> =>
        LET hits == {i \in 1..Len(line_parts) :
                        Grouped(line_parts[i], ",", ".")}
            first == CHOOSE i \in hits : \A j \in hits : i <= j
        IN  product_data[1].jumlah_terjual =
                IF hits = {} THEN Dec(0)
                ELSE Float(ReplaceChar(line_parts[first], ",", ""))[1]


\* C19: for 4 rows or more _find_optimal_clusters tries every candidate k
\* in 2..min(6, n - 1) and returns the one of maximal trial score, the
\* smallest on ties, a trial that raised or gave a single label counting 0
\* and not ending the search; when every trial failed it returns 2.
C19_BestTrialWins ==
    cluster_pc = "cluster" /\ features_df.n >= 4 =>
        LET last == IF features_df.n - 1 < 6 THEN features_df.n - 1 ELSE 6
            score(k) == IF trials[k - 1].kind = "scored"
                        THEN trials[k - 1].score ELSE 0
        IN  /\ Len(trials) = last - 1
            /\ optimal_clusters \in 2..last
            /\ \A k \in 2..last : score(k) <= score(optimal_clusters)
            /\ \A k \in 2..(optimal_clusters - 1) :
                  score(k) < score(optimal_clusters)
            /\ (\A k \in 2..last : trials[k - 1].kind # "scored") =>
                  optimal_clusters = 2

\* Of the trials for 8 rows, k = 2 scored low, k = 3 and k = 5 scored high
\* alike and k = 4 raised: 3 was returned.
C19_Witness ==
    /\ cluster_pc = "cluster"
    /\ features_df.n = 8
    /\ trials[1] = [kind |-> "scored", score |-> -5]
    /\ trials[2] = [kind |-> "scored", score |-> 5]
    /\ trials[3].kind = "raised"
    /\ trials[4] = [kind |-> "scored", score |-> 5]
    /\ optimal_clusters = 3


\* C20: for any sequence of per-row labels the segment map has exactly one
\* entry per label that occurs, each with a member count of 1 or more, the
\* member counts adding up to the number of records; no entry is made for a
\* label that no row carries.
C20_OneEntryPerLabel ==
    cluster_pc = "visualize" =>
        LET occurring == {labels[i] : i \in 1..Len(labels)}
            sizes == [id \in DOMAIN segments |-> segments[id].segment_size]
            Sum[S \in SUBSET DOMAIN segments] ==
                IF S = {} THEN 0
                ELSE LET id == CHOOSE x \in S : TRUE
                     IN  sizes[id] + Sum[S \ {id}]
        IN  /\ DOMAIN segments = occurring
            /\ \A id \in DOMAIN segments : segments[id].segment_size >= 1
            /\ Sum[DOMAIN segments] = Len(cdf.rows)

-----------------------------------------------------------------------------
(* The application: its specifications *)

\* Requests served one after the other, and restarts of the process.
AppNext ==
    \/ UploadFile
    \/ SelectDataset
    \/ CombinedData
    \/ ClearAllData
    \/ ClearCurrentData
    \/ Restart

InitApp ==
    /\ ParseIdle /\ LineIdle /\ TopIdle /\ PageIdle
    /\ PdfInit /\ ClusterInit /\ AnalysisInit /\ AppInit

SpecApp == InitApp /\ [][AppNext]_vars

\* Upload requests served by concurrent threads, each in four steps; the
\* other handlers are short and taken whole.
ThreadsNext ==
    \/ UploadBegin
    \/ UploadAppend
    \/ UploadStoreAnalysis
    \/ UploadStoreClustering
    \/ SelectDataset
    \/ CombinedData
    \/ ClearCurrentData

InitThreads ==
    /\ ParseIdle /\ LineIdle /\ TopIdle /\ PageIdle
    /\ PdfInit /\ ClusterInit /\ AnalysisInit /\ AppInit

SpecThreads == InitThreads /\ [][ThreadsNext]_vars

-----------------------------------------------------------------------------
(* The application: the active index *)

\* The index is within the history, and -1 exactly when the history is
\* empty, so that get_current_data returns the active entry whenever there
\* is one.
ActiveIndexValid ==
    LET n == Len(data_history)
        i == current_dataset_index
    IN  /\ -1 <= i /\ i < n
        /\ (i = -1) <=> (n = 0)
        /\ n > 0 => GetCurrentData(data_history, i) = Some(data_history[i + 1])

\* select_dataset, asked for an index past the end of the history, gives
\* the index it found.
SelectOutOfRangeKeeps ==
    \A dataset_index \in 0..MaxIds :
        dataset_index >= Len(data_history) =>
            SelectIndex(current_dataset_index, dataset_index, data_history)
                = current_dataset_index

\* A step that takes one entry out of a history of two or more (only
\* clear_current_data does) takes out the active entry, and makes its
\* predecessor active, or the new first entry when the first was taken out.
RemovalActivatesPredecessor ==
    (Len(data_history) >= 2 /\ Len(data_history') = Len(data_history) - 1) =>
        /\ data_history' = Pop(data_history, current_dataset_index)
        /\ current_dataset_index' =
               IF current_dataset_index = 0 THEN 0
               ELSE current_dataset_index - 1

\* C21: after any sequence of upload_file, select_dataset, combined_data,
\* clear_all_data and clear_current_data requests and restarts (load_all_data),
\* -1 <= current_dataset_index < len(data_history), the index is -1 exactly
\* when data_history is empty, and get_current_data returns a dataset
\* whenever the history is non-empty; select_dataset with an out-of-range
\* index leaves the index unchanged, and clear_current_data makes the
\* predecessor of the removed entry active, or the new first entry when the
\* first was removed.
C21_ActiveIndex ==
    /\ [](ActiveIndexValid /\ SelectOutOfRangeKeeps)
    /\ [][RemovalActivatesPredecessor]_vars

\* C21 witness: the table has the rows of two uploads and the history only
\* the second of them, active: clear_current_data removed the first entry
\* and the new first entry became the active one.
C21_Witness ==
    /\ Len(datasets) = 2
    /\ Len(data_history) = 1
    /\ data_history[1].filename = datasets[2].filename
    /\ data_history[1].filename # datasets[1].filename
    /\ current_dataset_index = 0

-----------------------------------------------------------------------------
(* The application: the table and the history *)

\* C22: at the end of every request the datasets table and data_history
\* describe the same datasets: the table has exactly one row per history
\* entry, and load_all_data after a restart would rebuild the same list of
\* datasets (a dataset removed by clear_current_data does not come back).
C22_TableMatchesHistory ==
    LET reloaded == LoadAllData(datasets, processed)
    IN  /\ Len(datasets) = Len(data_history)
        /\ Len(reloaded) = Len(data_history)
        /\ \A i \in 1..Len(data_history) :
               /\ reloaded[i].data = data_history[i].data
               /\ reloaded[i].filename = data_history[i].filename

-----------------------------------------------------------------------------
(* The application: concurrent uploads *)

\* C23: in every reachable state, also when upload requests interleave with
\* each other or with select_dataset, combined_data or clear_current_data,
\* the analysis_results and clustering_results of a data_history entry are
\* absent or were computed from that entry's own data.
C23_ResultsBelongToEntry ==
    \A i \in 1..Len(data_history) :
        /\ data_history[i].analysis_results
               \in {None, Some(AnalysisResults(data_history[i].data))}
        /\ data_history[i].clustering_results
               \in {None, Some(ClusteringResults(data_history[i].data))}

=============================================================================
